---------------------------- MODULE Spec2Model ----------------------------
(***************************************************************************)
(* Twister / Salvo / Barrage simulator (src/main.js, first variant, lines  *)
(* 1..1694): the cast scheduler, the hit-group cooldown ledger, the        *)
(* collision and behaviour resolver and the fixed-step loop of class       *)
(* Simulation.                                                             *)
(*                                                                         *)
(* Time.  The program keeps wall-clock times in milliseconds               *)
(* (performance.now()) and accumulators in seconds, both as floats.  The   *)
(* model counts every time in units of 1/600 s, the coarsest unit in which *)
(* fixedDt (1/120 s), the cast epsilon (0.01 s), the frame clamp (0.05 s), *)
(* the default repeat spacing (0.15 s) and the cooldown (0.66 s) are all   *)
(* integers.                                                               *)
(*                                                                         *)
(* Geometry.  Positions and velocities are not modelled.  Whether the      *)
(* swept test of a projectile against the boss reports a contact in a tick *)
(* (and at which offset inside the tick) depends on the positions of the   *)
(* draggable caster and boss and on the random spawn angles; it is an      *)
(* input of step, drawn from a bounded set.                                *)
(***************************************************************************)
EXTENDS Integers, Sequences, FiniteSets, TLC

(***************************************************************************)
(* Units and program constants                                             *)
(***************************************************************************)
UnitsPerSecond == 600

\* this.fixedDt = 1 / 120
fixedDt == UnitsPerSecond \div 120
\* the 0.01 s step of the cast accumulator
castEpsilon == UnitsPerSecond \div 100
\* dt = Math.min(dt, 0.05) in loop
frameClamp == UnitsPerSecond \div 20
\* const PER_CAST_TARGET_COOLDOWN = 0.66
PER_CAST_TARGET_COOLDOWN == (66 * UnitsPerSecond) \div 100
\* cfg.timeBetweenBarrageRepeats || 0.15
defaultTimeBetweenRepeats == (15 * UnitsPerSecond) \div 100
\* damage multipliers are kept in thousandths
DamageScale == 1000
\* barrageMultiplier 0.55 for repeats, 1.0 for the main cast
barrageMultiplierRepeat == 550
\* whirlwindDamageMultiplier = 1.0 + stages * 0.8
whirlwindBonusPerStage == 800
\* const projectilesPerSeal = 2
projectilesPerSeal == 2
\* pierceCount: 999  (Twisters always pierce)
pierceCountDefault == 999
\* history length kept by step
historyLimit == 10
\* hit-rate window, 5000 ms
hitWindow == 5 * UnitsPerSecond
\* angles are counted in steps of FORK_ANGLE_RAD (60 degrees)
angleSteps == 6
\* the angle of a projectile built from angles[idx] past the end of the list
NaNAngle == 0 - 1
\* this.currentInstanceId = null
NoInstance == 0

(***************************************************************************)
(* Bounds of the model.  Three families of runs are explored:              *)
(*   Spec          the cast scheduler, with the boss parked away from      *)
(*                 every path (no contact is ever reported);               *)
(*   SpecLedger    the hit-group cooldown ledger, with projectiles that    *)
(*                 never expire and touch the boss when a frame ends;      *)
(*   SpecResolver  the behaviour resolver, over projectiles whose          *)
(*                 split / pierce / fork / chain budgets are drawn from    *)
(*                 bounded sets.                                           *)
(* A profile collects the input sets of one family.                        *)
(***************************************************************************)
\* --- Spec
MaxClock == 270
MaxCastId == 4
MaxUiEvents == 3
MaxWhirlwind == 1
MaxSealCap == 1
MaxBarrage == 2
MaxStream == 1
\* SpecSeals
SealsMaxClock == 120
SealsMaxCastId == 3
SealsMaxUiEvents == 3
SealsMaxBase == 2
SealsMaxSealCap == 2
SealsMaxThreshold == 2
\* SpecBuilder
BuilderMaxPoints == 3
BuilderMaxDistances == 4
\* SpecPage
PageMaxSims == 3
PageMaxFrames == 4
PageMaxCastId == 4
PageLifetime == 2
\* SpecLive
LiveMaxClock == 360
LiveMaxCastId == 6
LiveMaxUiEvents == 3
\* SpecUrl
UrlMaxClock == 1200
UrlMaxRequests == 4
UrlMaxState == 2
\* SpecBurst
BurstMaxClock == 60
BurstMaxCastId == 5
BurstMaxUiEvents == 3
\* SpecControl
ControlMaxClock == 90
ControlMaxCastId == 6
ControlMaxUiEvents == 3
ControlMaxTouch == 1
ControlMaxHits == 2
\* SpecGeometry
ConfigMaxText == 2
GeoCorridor == 3
GeoMaxTick == 4
GeoMaxCoord == 3
GeoMaxStep == 3
GeoMaxRadius == 2
GeoGrid == 4
\* SpecHistory
HistoryMaxClock == 450
HistoryMaxCastId == 12
HistoryMaxUiEvents == 2
HistoryMaxHits == 30
\* SpecOverlap
OverlapMaxClock == 800
OverlapMaxCastId == 2
OverlapMaxUiEvents == 2
OverlapMaxSealCap == 2
OverlapMaxTouch == 1
OverlapMaxHits == 6
\* --- SpecLedger
LedgerMaxClock == 800
LedgerMaxCastId == 2
LedgerMaxUiEvents == 2
LedgerMaxSealCap == 1
LedgerMaxBarrage == 1
LedgerMaxTouch == 1
LedgerMaxHits == 2
\* --- SpecResolver
ResolverMaxClock == 2000
ResolverMaxBudget == 1
ResolverMaxSplit == 2
ResolverMaxTouch == 1
ResolverMaxHits == 5

\* offsets inside a tick at which a contact can be found:
\* (s * subdt + subdt * tHit) ranges over [0, dt]
HitOffsets == {0, fixedDt}
\* Math.random() * 100 in applyFork: below and above every forkChance < 100
ForkRollValues == {0, 99}

\* randRange streams: stream k returns (k * idx) mod 6 on its idx-th draw,
\* so stream 0 repeats one angle and stream 1 steps through the angles
RandStream(k) ==
  [idx \in 1..(1 + MaxWhirlwind
                 + projectilesPerSeal * (MaxSealCap + LedgerMaxSealCap)) |->
     (k * idx) % angleSteps]

VARIABLES
  \* --- module global
  nextCastId,
  \* --- Simulation fields
  lastTime, accum, running, castAccumulator, currentSeals, lastSealAccumTime,
  barrageCastSchedule, config, projectiles,
  hitsTotal, totalDamage, hitTimestamps, castTargetLocks,
  currentInstanceId, currentCastHits, castHitHistory, projPerCastHistory,
  completedCastInstances,
  \* --- observation (history) variables, not read by the program
  grantedHits,     \* every hit granted so far, in order: key and time
  castLedger,      \* instanceId -> what the main cast fired with
  completedOrder,  \* instance ids in the order they were pushed to the histories
  hitLog,          \* the tryApplyHit calls of the last action, in order
  uiEvents,        \* number of button clicks and input events so far
  emitLog,         \* the emitCastProjectiles calls of the last action, in order
  simulated,       \* simulated time: the sum of dt over the step calls so far
  \* --- one call of a geometry function, for the properties of the functions
  probe,           \* the function and its arguments
  outcome,         \* what the call returned
  \* --- the rest of the page
  urlUpdate,       \* __urlUpdate, the timers of the window and the address bar
  page,            \* window.__sim and every Simulation constructed so far
  builder          \* the ArenaBuilder of the arena builder page

vars == <<nextCastId, lastTime, accum, running, castAccumulator, currentSeals,
          lastSealAccumTime, barrageCastSchedule, config, projectiles,
          hitsTotal, totalDamage, hitTimestamps, castTargetLocks,
          currentInstanceId, currentCastHits, castHitHistory,
          projPerCastHistory, completedCastInstances,
          grantedHits, castLedger, completedOrder, hitLog, emitLog,
          uiEvents, simulated, probe, outcome, urlUpdate, page, builder>>

\* what the scheduler, geometry and configuration specifications leave alone
restOfPage == <<urlUpdate, page, builder>>

\* the fields and observations of the one Simulation of those specifications
simulation ==
  <<nextCastId, lastTime, accum, running, castAccumulator, currentSeals,
    lastSealAccumTime, barrageCastSchedule, config, projectiles,
    hitsTotal, totalDamage, hitTimestamps, castTargetLocks,
    currentInstanceId, currentCastHits, castHitHistory,
    projPerCastHistory, completedCastInstances,
    grantedHits, castLedger, completedOrder, hitLog, emitLog,
    uiEvents, simulated, probe, outcome>>

(***************************************************************************)
(* The simulation as one record, so that the methods can be written as     *)
(* functions from state to state.                                          *)
(***************************************************************************)
Sim ==
  [ nextCastId |-> nextCastId, running |-> running,
    castAccumulator |-> castAccumulator, currentSeals |-> currentSeals,
    lastSealAccumTime |-> lastSealAccumTime,
    barrageCastSchedule |-> barrageCastSchedule, config |-> config,
    projectiles |-> projectiles, hitsTotal |-> hitsTotal,
    totalDamage |-> totalDamage, hitTimestamps |-> hitTimestamps,
    castTargetLocks |-> castTargetLocks,
    currentInstanceId |-> currentInstanceId,
    currentCastHits |-> currentCastHits, castHitHistory |-> castHitHistory,
    projPerCastHistory |-> projPerCastHistory,
    completedCastInstances |-> completedCastInstances,
    grantedHits |-> grantedHits, castLedger |-> castLedger,
    completedOrder |-> completedOrder, simulated |-> simulated,
    hitLog |-> <<>>, emitLog |-> <<>> ]

Install(s) ==
  /\ nextCastId' = s.nextCastId
  /\ running' = s.running
  /\ castAccumulator' = s.castAccumulator
  /\ currentSeals' = s.currentSeals
  /\ lastSealAccumTime' = s.lastSealAccumTime
  /\ barrageCastSchedule' = s.barrageCastSchedule
  /\ config' = s.config
  /\ projectiles' = s.projectiles
  /\ hitsTotal' = s.hitsTotal
  /\ totalDamage' = s.totalDamage
  /\ hitTimestamps' = s.hitTimestamps
  /\ castTargetLocks' = s.castTargetLocks
  /\ currentInstanceId' = s.currentInstanceId
  /\ currentCastHits' = s.currentCastHits
  /\ castHitHistory' = s.castHitHistory
  /\ projPerCastHistory' = s.projPerCastHistory
  /\ completedCastInstances' = s.completedCastInstances
  /\ grantedHits' = s.grantedHits
  /\ castLedger' = s.castLedger
  /\ completedOrder' = s.completedOrder
  /\ simulated' = s.simulated
  /\ hitLog' = s.hitLog
  /\ emitLog' = s.emitLog
  /\ UNCHANGED <<probe, outcome>>
  /\ UNCHANGED restOfPage

Max(a, b) == IF a >= b THEN a ELSE b

(***************************************************************************)
(* readConfigFromDOM: the configuration record.  The behaviour budgets are *)
(* not read from the page: pierce 999, fork, chain, split and forkChance 0.*)
(* Times are in units, baseSealGainFrequency in hundredths per second.     *)
(***************************************************************************)
readConfigFromDOM(pc, w, ms, ssc, bc, tbr, dur, freq, avg) ==
  [ avgHit |-> avg, projectileCount |-> pc, whirlwindStages |-> w,
    duration |-> dur,
    pierceCount |-> pierceCountDefault, forkTimes |-> 0, chainCount |-> 0,
    splitCount |-> 0, forkChance |-> 0,
    maxSeals |-> ms, salvoSealCount |-> ssc, barrageCount |-> bc,
    timeBetweenBarrageRepeats |-> tbr, baseSealGainFrequency |-> freq,
    increasedSealGainFrequency |-> 0 ]

(***************************************************************************)
(* class Projectile.  Of the position x, y the model keeps atCaster:       *)
(* whether the projectile is still at the caster's position, where         *)
(* emitCastProjectiles constructs it.                                      *)
(***************************************************************************)
Projectile(c) ==
  [ castId |-> c.castId, instanceId |-> c.instanceId,
    barrageRepeatIndex |-> c.barrageRepeatIndex, angle |-> c.angle,
    atCaster |-> c.atCaster,
    spawnTime |-> c.now, duration |-> c.duration,
    pierceRemaining |-> c.pierceCount, forkRemaining |-> c.forkTimes,
    chainRemaining |-> c.chainCount, splitCount |-> c.splitCount,
    hasSplit |-> FALSE, salvoGroup |-> c.salvoGroup,
    damageMultiplier |-> c.damageMultiplier ]

age(p, now) == now - p.spawnTime

isExpired(p, now) == age(p, now) > p.duration /\ p.duration >= 0


(***************************************************************************)
(* emitCastProjectiles(castId, now, barrageRepeatIndex, sealCount, angles, *)
(* instanceId).  sealCount = NullSeals and angles = NullAngles stand for   *)
(* the null defaults of the parameters.  rnd is the stream of randRange    *)
(* draws, indexed like angleIdx.  The result is the record                 *)
(* {angles, projCount} of the source together with the new state.          *)
(***************************************************************************)
NullSeals == 0 - 1
NullAngles == [given |-> FALSE, list |-> <<>>]
GivenAngles(l) == [given |-> TRUE, list |-> l]

\* angles ? angles[angleIdx++] : randRange(0, TWO_PI)
angleAt(angles, rnd, idx) ==
  IF angles.given
    THEN IF idx <= Len(angles.list) THEN angles.list[idx] ELSE NaNAngle
    ELSE rnd[idx]

whirlwindDamageMultiplier(cfg) ==
  DamageScale + cfg.whirlwindStages * whirlwindBonusPerStage

barrageMultiplier(barrageRepeatIndex) ==
  IF barrageRepeatIndex > 0 THEN barrageMultiplierRepeat ELSE DamageScale

\* faulty variant: the base projectile is left out
baseCountOf_StagesOnly(cfg) == cfg.whirlwindStages

\* const baseCount = 1 + cfg.whirlwindStages
baseCountOf(cfg) == 1 + cfg.whirlwindStages

sealProjectileCount(actualSealCount) == actualSealCount * projectilesPerSeal

\* salvoGroup: sealIdx + 1 for the j-th seal projectile (j from 1)
sealGroupOf(j) == ((j - 1) \div projectilesPerSeal) + 1

emitCastProjectiles(s, castId, now, barrageRepeatIndex, sealCount, angles, instanceId, rnd) ==
  LET cfg == s.config
      baseCount == baseCountOf(cfg)
      actualSealCount == IF sealCount # NullSeals THEN sealCount
                         ELSE s.currentSeals
      sealProj == sealProjectileCount(actualSealCount)
      dm == (barrageMultiplier(barrageRepeatIndex)
               * whirlwindDamageMultiplier(cfg)) \div DamageScale
      mk(idx, grp) ==
        Projectile([ castId |-> castId, instanceId |-> instanceId,
                     barrageRepeatIndex |-> barrageRepeatIndex,
                     atCaster |-> TRUE,
                     angle |-> angleAt(angles, rnd, idx), now |-> now,
                     duration |-> cfg.duration,
                     pierceCount |-> cfg.pierceCount,
                     forkTimes |-> cfg.forkTimes,
                     chainCount |-> cfg.chainCount,
                     splitCount |-> cfg.splitCount,
                     salvoGroup |-> grp, damageMultiplier |-> dm ])
      base == [i \in 1..baseCount |-> mk(i, 0)]
      seal == [j \in 1..sealProj |-> mk(baseCount + j, sealGroupOf(j))]
      spawned == base \o seal
      capturedAngles ==
        IF barrageRepeatIndex = 0 /\ ~angles.given
          THEN GivenAngles([i \in 1..Len(spawned) |-> spawned[i].angle])
          ELSE NullAngles
      entry == [ castId |-> castId, instanceId |-> instanceId,
                 barrageRepeatIndex |-> barrageRepeatIndex, now |-> now,
                 whirlwindStages |-> cfg.whirlwindStages,
                 sealCount |-> actualSealCount, spawned |-> spawned ]
  IN [ s |-> [s EXCEPT !.projectiles = @ \o spawned,
                       !.emitLog = Append(@, entry)],
       angles |-> capturedAngles,
       projCount |-> baseCount + actualSealCount * projectilesPerSeal ]

\* number of randRange draws a main cast makes in state s
drawsOfCast(cfg, seals) == baseCountOf(cfg) + sealProjectileCount(seals)

(***************************************************************************)
(* emitCast(now)                                                           *)
(***************************************************************************)
timeBetweenRepeatsOf(cfg) ==
  IF cfg.timeBetweenBarrageRepeats # 0 THEN cfg.timeBetweenBarrageRepeats
  ELSE defaultTimeBetweenRepeats

\* faulty variant: every repeat is scheduled one spacing after the cast
scheduledRepeat_OneSpacing(now, cfg, firstId, instanceId, castSealCount, castAngles, repeatIdx) ==
  [ time |-> now + timeBetweenRepeatsOf(cfg),
    castId |-> firstId + (repeatIdx - 1),
    instanceId |-> instanceId,
    barrageRepeatIndex |-> repeatIdx,
    sealCount |-> castSealCount,
    angles |-> castAngles ]

scheduledRepeat(now, cfg, firstId, instanceId, castSealCount, castAngles, repeatIdx) ==
  [ time |-> now + timeBetweenRepeatsOf(cfg) * repeatIdx,
    castId |-> firstId + (repeatIdx - 1),
    instanceId |-> instanceId,
    barrageRepeatIndex |-> repeatIdx,
    sealCount |-> castSealCount,
    angles |-> castAngles ]

\* a variant that leaves the seals in place
sealsAfterCast_Kept(s) == s.currentSeals

\* this.currentSeals = 0
sealsAfterCast(s) == 0

emitCast(s, now, rnd) ==
  LET cfg == s.config
      castId == s.nextCastId
      instanceId == castId
      s1 == [s EXCEPT !.nextCastId = castId + 1,
                      !.currentInstanceId = instanceId,
                      !.currentCastHits = 0,
                      !.completedCastInstances =
                         [i \in DOMAIN @ \cup {instanceId} |->
                            IF i = instanceId
                              THEN [hits |-> 0, projCount |-> 0,
                                    completed |-> FALSE]
                              ELSE @[i]]]
      castResult == emitCastProjectiles(s1, castId, now, 0, NullSeals,
                                        NullAngles, instanceId, rnd)
      s2 == [castResult.s EXCEPT
               !.completedCastInstances[instanceId].projCount =
                  @ + castResult.projCount]
      nRepeats == IF cfg.barrageCount > 0 THEN cfg.barrageCount ELSE 0
      repeats == [k \in 1..nRepeats |->
                    scheduledRepeat(now, cfg, s2.nextCastId, instanceId,
                                    s2.currentSeals, castResult.angles.list,
                                    k)]
      ledgerEntry == [ time |-> now, simulated |-> s.simulated,
                       config |-> cfg,
                       whirlwindStages |-> cfg.whirlwindStages,
                       sealCount |-> s2.currentSeals,
                       barrageCount |-> cfg.barrageCount,
                       timeBetweenBarrageRepeats |->
                          cfg.timeBetweenBarrageRepeats,
                       firstRepeatCastId |-> s2.nextCastId,
                       angles |-> castResult.angles.list,
                       main |-> s2.emitLog[Len(s2.emitLog)] ]
  IN [s2 EXCEPT !.barrageCastSchedule = @ \o repeats,
                !.nextCastId = @ + nRepeats,
                !.currentSeals = sealsAfterCast(s2),
                !.castLedger = [i \in DOMAIN @ \cup {instanceId} |->
                                  IF i = instanceId THEN ledgerEntry
                                  ELSE @[i]]]


(***************************************************************************)
(* tryApplyHit(proj, now).  The key is instanceId | barrageRepeatIndex |   *)
(* salvoGroup | 'boss'; the target is always the boss.  Every call is      *)
(* written to hitLog with the values it read and the values it left.       *)
(***************************************************************************)
\* a variant of the key without the salvo group
keyOf_NoGroup(p) == <<p.instanceId, p.barrageRepeatIndex, 0>>

keyOf(p) == <<p.instanceId, p.barrageRepeatIndex, p.salvoGroup>>

\* faulty variant: the ledger lookup never finds the key
nextOkOf_NeverFound(locks, key) == 0

\* this.castTargetLocks.get(key) || 0
nextOkOf(locks, key) == IF key \in DOMAIN locks THEN locks[key] ELSE 0

\* proj.damageMultiplier || 1.0
damageMultiplierOr1(p) ==
  IF p.damageMultiplier # 0 THEN p.damageMultiplier ELSE DamageScale

\* faulty variant: a hit exactly at the next-allowed time is still denied
hitGranted_Strict(now, nextOk) == now > nextOk

\* if (now >= nextOk)
hitGranted(now, nextOk) == now >= nextOk

\* faulty variant: the lock is written without the cooldown
lockUntil_NoCooldown(now) == now

\* now + PER_CAST_TARGET_COOLDOWN * 1000
lockUntil(now) == now + PER_CAST_TARGET_COOLDOWN

tryApplyHit(s, p, now) ==
  LET key == keyOf(p)
      nextOk == nextOkOf(s.castTargetLocks, key)
      granted == hitGranted(now, nextOk)
      cch == IF p.instanceId = s.currentInstanceId
               THEN s.currentCastHits + 1 ELSE s.currentCastHits
      sg == [s EXCEPT
               !.hitsTotal = @ + 1,
               !.totalDamage = @ + s.config.avgHit * damageMultiplierOr1(p),
               !.hitTimestamps = Append(@, now),
               !.currentCastHits = cch,
               !.completedCastInstances =
                  IF p.instanceId \in DOMAIN @
                    THEN [@ EXCEPT ![p.instanceId].hits = Max(@, cch)]
                    ELSE @,
               !.castTargetLocks =
                  [k \in DOMAIN @ \cup {key} |->
                     IF k = key THEN lockUntil(now) ELSE @[k]],
               !.grantedHits = Append(@,
                  [instanceId |-> p.instanceId,
                   barrageRepeatIndex |-> p.barrageRepeatIndex,
                   salvoGroup |-> p.salvoGroup, t |-> now])]
      s1 == IF granted THEN sg ELSE s
      entry == [ proj |-> p, now |-> now, nextOk |-> nextOk,
                 granted |-> granted,
                 hitsBefore |-> s.hitsTotal, hitsAfter |-> s1.hitsTotal,
                 damageBefore |-> s.totalDamage,
                 damageAfter |-> s1.totalDamage,
                 avgHit |-> s.config.avgHit,
                 locksBefore |-> s.castTargetLocks,
                 locksAfter |-> s1.castTargetLocks,
                 applied |-> <<>>, result |-> "keep", projAfter |-> p,
                 children |-> <<>>,
                 liveBefore |-> Len(s.projectiles), liveAfter |-> Len(s.projectiles),
                 unchanged |-> TRUE ]
  IN [ s |-> [s1 EXCEPT !.hitLog = Append(@, entry)], granted |-> granted ]

(***************************************************************************)
(* Behaviours on a granted hit.  proj is this.projectiles[i]; each helper  *)
(* notes its name in the log entry of the hit it serves.                   *)
(***************************************************************************)
noteBehaviour(s, name) ==
  [s EXCEPT !.hitLog[Len(s.hitLog)].applied = Append(@, name)]

\* a variant whose children start a salvo group of their own
childOf_OwnGroup(s, p, angle, nowTs, forkTimes) ==
  Projectile([ castId |-> p.castId, instanceId |-> p.instanceId,
               barrageRepeatIndex |-> p.barrageRepeatIndex,
               atCaster |-> p.atCaster,
               angle |-> angle, now |-> nowTs,
               duration |-> Max(0, p.duration - age(p, nowTs)),
               pierceCount |-> p.pierceRemaining,
               forkTimes |-> forkTimes,
               chainCount |-> p.chainRemaining,
               splitCount |-> 0, salvoGroup |-> p.salvoGroup + 1,
               damageMultiplier |-> p.damageMultiplier ])

childOf(s, p, angle, nowTs, forkTimes) ==
  Projectile([ castId |-> p.castId, instanceId |-> p.instanceId,
               barrageRepeatIndex |-> p.barrageRepeatIndex,
               atCaster |-> p.atCaster,
               angle |-> angle, now |-> nowTs,
               duration |-> Max(0, p.duration - age(p, nowTs)),
               pierceCount |-> p.pierceRemaining,
               forkTimes |-> forkTimes,
               chainCount |-> p.chainRemaining,
               splitCount |-> 0, salvoGroup |-> p.salvoGroup,
               damageMultiplier |-> p.damageMultiplier ])

turn(angle, by) ==
  IF angle = NaNAngle THEN NaNAngle ELSE (angle + by + angleSteps) % angleSteps

applySplit(s, i, nowTs) ==
  LET p == s.projectiles[i]
      n == Max(1, p.splitCount)
      children == [k \in 1..n |->
                     childOf(s, p, ((k - 1) * angleSteps) \div n, nowTs,
                             p.forkRemaining)]
  IN [ s |-> noteBehaviour([s EXCEPT !.projectiles = @ \o children],
                           "split"),
       res |-> "remove" ]

\* a variant that passes through without spending the pierce
applyPierce_NoDecrement(s, i) ==
  [ s |-> noteBehaviour(s, "pierce"), res |-> "keep" ]

\* proj.pierceRemaining -= 1; return 'keep'
applyPierce(s, i) ==
  [ s |-> noteBehaviour(
            [s EXCEPT !.projectiles[i].pierceRemaining = @ - 1], "pierce"),
    res |-> "keep" ]

\* roll is Math.random() * 100
applyFork(s, i, nowTs, roll) ==
  LET p == s.projectiles[i]
      base == p.angle
      childAngles == <<turn(base, 1), turn(base, 0 - 1)>>
                       \o (IF roll < s.config.forkChance THEN <<base>>
                           ELSE <<>>)
      children == [k \in 1..Len(childAngles) |->
                     childOf(s, p, childAngles[k], nowTs,
                             p.forkRemaining - 1)]
  IN [ s |-> noteBehaviour([s EXCEPT !.projectiles = @ \o children],
                           "fork"),
       res |-> "remove" ]

applyChain(s, i) ==
  [ s |-> noteBehaviour(
            [s EXCEPT !.projectiles[i].chainRemaining =
                         IF @ > 0 THEN @ - 1 ELSE @], "chain"),
    res |-> "keep" ]

(***************************************************************************)
(* handleProjectileEnemyCollision(proj, now) for a projectile found in     *)
(* contact with the boss (d <= proj.radius + boss.r).  wall is the value   *)
(* of performance.now() passed to applySplit and applyFork.                *)
(***************************************************************************)
\* faulty variant: pierce is tried before split
resolveGrantedHit_PierceFirst(s, i, wall, roll) ==
  LET p == s.projectiles[i]
  IN IF p.pierceRemaining > 0 THEN applyPierce(s, i)
     ELSE IF ~p.hasSplit /\ p.splitCount > 0
       THEN applySplit([s EXCEPT !.projectiles[i].hasSplit = TRUE], i, wall)
     ELSE IF p.forkRemaining > 0 THEN applyFork(s, i, wall, roll)
     ELSE IF p.chainRemaining > 0 THEN applyChain(s, i)
     ELSE [ s |-> noteBehaviour(s, "absorb"), res |-> "remove" ]

resolveGrantedHit(s, i, wall, roll) ==
  LET p == s.projectiles[i]
  IN IF ~p.hasSplit /\ p.splitCount > 0
       THEN applySplit([s EXCEPT !.projectiles[i].hasSplit = TRUE], i, wall)
     ELSE IF p.pierceRemaining > 0 THEN applyPierce(s, i)
     ELSE IF p.forkRemaining > 0 THEN applyFork(s, i, wall, roll)
     ELSE IF p.chainRemaining > 0 THEN applyChain(s, i)
     ELSE [ s |-> noteBehaviour(s, "absorb"), res |-> "remove" ]

\* faulty variant: behaviours are resolved whether or not the hit registered
resolveDeniedHit_Resolved(s, i, wall, roll) == resolveGrantedHit(s, i, wall, roll)

resolveDeniedHit(s, i, wall, roll) == [ s |-> s, res |-> "keep" ]

\* what a call leaves of the state a denied hit must not touch
ledgerView(s) ==
  [ castTargetLocks |-> s.castTargetLocks, hitsTotal |-> s.hitsTotal,
    totalDamage |-> s.totalDamage, hitTimestamps |-> s.hitTimestamps,
    currentCastHits |-> s.currentCastHits,
    completedCastInstances |-> s.completedCastInstances,
    projectiles |-> s.projectiles ]

handleProjectileEnemyCollision(s, i, now, wall, roll) ==
  LET hit == tryApplyHit(s, s.projectiles[i], now)
      r == IF hit.granted THEN resolveGrantedHit(hit.s, i, wall, roll)
           ELSE resolveDeniedHit(hit.s, i, wall, roll)
      n == Len(r.s.hitLog)
  IN [ s |-> [r.s EXCEPT !.hitLog[n].result = r.res,
                         !.hitLog[n].projAfter = r.s.projectiles[i],
                         !.hitLog[n].liveAfter = Len(r.s.projectiles),
                         !.hitLog[n].children =
                            SubSeq(r.s.projectiles, Len(s.projectiles) + 1,
                                   Len(r.s.projectiles)),
                         !.hitLog[n].unchanged =
                            (ledgerView(r.s) = ledgerView(s))],
       res |-> r.res ]


(***************************************************************************)
(* step(dt): the scheduler part, run only while this.running               *)
(***************************************************************************)
\* 1.0 / (baseSealFreq * (1 + increasePercent))
sealAccumInterval(cfg) ==
  (UnitsPerSecond * 100 * 100)
    \div (cfg.baseSealGainFrequency * (100 + cfg.increasedSealGainFrequency))

\* salvoSealCount === 0 ? 1 : salvoSealCount
sealThreshold(cfg) ==
  IF cfg.salvoSealCount = 0 THEN 1 ELSE cfg.salvoSealCount

RECURSIVE accrueSeals(_)
accrueSeals(s) ==
  IF s.lastSealAccumTime >= sealAccumInterval(s.config)
       /\ s.currentSeals < s.config.maxSeals
    THEN accrueSeals([s EXCEPT
                        !.lastSealAccumTime = @ - sealAccumInterval(s.config),
                        !.currentSeals = @ + 1])
    ELSE s

castDue(s) ==
  s.castAccumulator >= castEpsilon
    /\ s.currentSeals >= sealThreshold(s.config)

\* every cast of one tick draws from the same stream rnd
RECURSIVE castLoop(_, _, _)
castLoop(s, now, rnd) ==
  IF castDue(s)
    THEN castLoop(emitCast([s EXCEPT !.castAccumulator = @ - castEpsilon],
                           now, rnd), now, rnd)
    ELSE s

removeAt(seq, i) == SubSeq(seq, 1, i - 1) \o SubSeq(seq, i + 1, Len(seq))

\* a variant that reads the scheduled time in another unit
repeatDue_Unscaled(now, scheduled) == now >= scheduled.time \div 1000

\* if (this.barrageCastSchedule[i].time <= now)
repeatDue(now, scheduled) == now >= scheduled.time

fireRepeat(s, i) ==
  LET scheduled == s.barrageCastSchedule[i]
      barrageResult ==
        emitCastProjectiles(s, scheduled.castId, scheduled.time,
                            scheduled.barrageRepeatIndex,
                            scheduled.sealCount,
                            GivenAngles(scheduled.angles),
                            scheduled.instanceId, <<>>)
      s1 == barrageResult.s
  IN [s1 EXCEPT
        !.completedCastInstances =
           IF scheduled.instanceId \in DOMAIN @
             THEN [@ EXCEPT ![scheduled.instanceId].projCount =
                               @ + barrageResult.projCount]
             ELSE @,
        !.barrageCastSchedule = removeAt(@, i)]

\* for (let i = length - 1; i >= 0; i--)
RECURSIVE processRepeats(_, _, _)
processRepeats(s, i, now) ==
  IF i < 1 THEN s
  ELSE IF repeatDue(now, s.barrageCastSchedule[i])
    THEN processRepeats(fireRepeat(s, i), i - 1, now)
    ELSE processRepeats(s, i - 1, now)

schedulerBeforeCast(s, dt) ==
  LET s1 == accrueSeals([s EXCEPT !.lastSealAccumTime = @ + dt])
  IN [s1 EXCEPT !.castAccumulator = @ + dt]

\* a variant that fires the due barrage repeats whether running or not
stepScheduler_RepeatsWhenStopped(s, dt, now, rnd) ==
  LET s2 == IF s.running THEN castLoop(schedulerBeforeCast(s, dt), now, rnd)
                         ELSE s
  IN processRepeats(s2, Len(s2.barrageCastSchedule), now)

stepScheduler(s, dt, now, rnd) ==
  IF s.running
    THEN LET s2 == castLoop(schedulerBeforeCast(s, dt), now, rnd)
         IN processRepeats(s2, Len(s2.barrageCastSchedule), now)
    ELSE s

\* the number of randRange draws the tick will make
drawsOfStep(s, dt) ==
  IF s.running /\ castDue(schedulerBeforeCast(s, dt))
    THEN drawsOfCast(s.config, schedulerBeforeCast(s, dt).currentSeals)
    ELSE 0

(***************************************************************************)
(* step(dt): the projectile loop.  touch(i) is the offset inside the tick  *)
(* at which projectile i is found in contact with the boss, or NoTouch.    *)
(* The loop runs over the live array, so children pushed by split and fork *)
(* are visited in the same tick.                                           *)
(***************************************************************************)
NoTouch == 0 - 1

\* proj.move(subdt): the projectile leaves the position it was constructed at
move(p) == [p EXCEPT !.atCaster = FALSE]

\* a variant that iterates a snapshot of the list taken before the loop
RECURSIVE projectileLoop_Snapshot(_, _, _, _, _, _, _)
projectileLoop_Snapshot(s, i, survivors, now, touch, childTouch, roll) ==
  IF i > Len(touch) \/ i > Len(s.projectiles)
    THEN [s EXCEPT !.projectiles = survivors]
  ELSE
    LET p == s.projectiles[i]
        off == touch[i]
    IN IF isExpired(p, now)
         THEN projectileLoop_Snapshot(s, i + 1, survivors, now, touch,
                                      childTouch, roll)
       ELSE IF off = NoTouch
         THEN projectileLoop_Snapshot(s, i + 1, Append(survivors, move(p)),
                                      now, touch, childTouch, roll)
       ELSE
         LET r == handleProjectileEnemyCollision(s, i, now + off, now, roll)
         IN projectileLoop_Snapshot(r.s, i + 1,
                           IF r.res = "remove" THEN survivors
                           ELSE Append(survivors, move(r.s.projectiles[i])),
                           now, touch, childTouch, roll)

RECURSIVE projectileLoop(_, _, _, _, _, _, _)
projectileLoop(s, i, survivors, now, touch, childTouch, roll) ==
  IF i > Len(s.projectiles) THEN [s EXCEPT !.projectiles = survivors]
  ELSE
    LET p == s.projectiles[i]
        off == IF i <= Len(touch) THEN touch[i] ELSE childTouch
    IN IF isExpired(p, now)
         THEN projectileLoop(s, i + 1, survivors, now, touch, childTouch,
                             roll)
       ELSE IF off = NoTouch
         THEN projectileLoop(s, i + 1, Append(survivors, move(p)), now,
                             touch, childTouch, roll)
       ELSE
         LET r == handleProjectileEnemyCollision(s, i, now + off, now, roll)
         IN projectileLoop(r.s, i + 1,
                           IF r.res = "remove" THEN survivors
                           ELSE Append(survivors, move(r.s.projectiles[i])),
                           now, touch, childTouch, roll)

\* while (hitTimestamps.length && hitTimestamps[0] < cutoff) shift()
RECURSIVE trimTimestamps(_, _)
trimTimestamps(ts, cutoff) ==
  IF Len(ts) > 0 /\ Head(ts) < cutoff THEN trimTimestamps(Tail(ts), cutoff)
  ELSE ts

\* a variant that refuses the new entry when the history is full
pushLimited_DropNewest(hist, v) ==
  IF Len(hist) + 1 > historyLimit THEN hist ELSE Append(hist, v)

pushLimited(hist, v) ==
  IF Len(hist) + 1 > historyLimit THEN Tail(Append(hist, v))
  ELSE Append(hist, v)

hasProjectilesFromInstance(s, instanceId) ==
  \E k \in 1..Len(s.projectiles) : s.projectiles[k].instanceId = instanceId

instanceFinished(s, instanceId) == ~hasProjectilesFromInstance(s, instanceId)

\* a variant that pushes to the histories without marking the entry
RECURSIVE completeInstances_Unmarked(_, _)
completeInstances_Unmarked(s, ids) ==
  IF ids = {} THEN s
  ELSE
    LET id == CHOOSE x \in ids : \A y \in ids : x <= y
        entry == s.completedCastInstances[id]
        s1 == IF ~entry.completed /\ instanceFinished(s, id)
                THEN [s EXCEPT
                        !.castHitHistory = pushLimited(@, entry.hits),
                        !.projPerCastHistory = pushLimited(@, entry.projCount),
                        !.completedOrder = pushLimited(@, id)]
                ELSE s
    IN completeInstances_Unmarked(s1, ids \ {id})

\* the Map is iterated in insertion order, which is the order of the ids
RECURSIVE completeInstances(_, _)
completeInstances(s, ids) ==
  IF ids = {} THEN s
  ELSE
    LET id == CHOOSE x \in ids : \A y \in ids : x <= y
        entry == s.completedCastInstances[id]
        s1 == IF ~entry.completed /\ instanceFinished(s, id)
                THEN [s EXCEPT
                        !.completedCastInstances[id].completed = TRUE,
                        !.castHitHistory = pushLimited(@, entry.hits),
                        !.projPerCastHistory = pushLimited(@, entry.projCount),
                        !.completedOrder = pushLimited(@, id)]
                ELSE s
    IN completeInstances(s1, ids \ {id})

step(s, dt, now, rnd, touch, childTouch, roll) ==
  LET s1 == stepScheduler(s, dt, now, rnd)
      s2 == projectileLoop(s1, 1, <<>>, now, touch, childTouch, roll)
      s3 == [s2 EXCEPT !.hitTimestamps = trimTimestamps(@, now - hitWindow),
                       !.simulated = @ + dt]
  IN completeInstances(s3, DOMAIN s3.completedCastInstances)

\* a variant that leaves the pending barrage repeats in place
reset_KeepsSchedule(s) ==
  [s EXCEPT !.running = FALSE, !.castAccumulator = 0, !.projectiles = <<>>,
            !.hitsTotal = 0, !.totalDamage = 0, !.hitTimestamps = <<>>,
            !.castTargetLocks = <<>>, !.currentSeals = 0,
            !.lastSealAccumTime = 0, !.currentInstanceId = NoInstance,
            !.currentCastHits = 0, !.castHitHistory = <<>>,
            !.projPerCastHistory = <<>>, !.completedCastInstances = <<>>,
            !.completedOrder = <<>>, !.nextCastId = @ + 1]

reset(s) ==
  [s EXCEPT !.running = FALSE, !.castAccumulator = 0, !.projectiles = <<>>,
            !.hitsTotal = 0, !.totalDamage = 0, !.hitTimestamps = <<>>,
            !.castTargetLocks = <<>>, !.currentSeals = 0,
            !.lastSealAccumTime = 0, !.barrageCastSchedule = <<>>,
            !.currentInstanceId = NoInstance, !.currentCastHits = 0,
            !.castHitHistory = <<>>, !.projPerCastHistory = <<>>,
            !.completedCastInstances = <<>>, !.completedOrder = <<>>,
            !.nextCastId = @ + 1]

(***************************************************************************)
(* Inputs of a tick                                                        *)
(***************************************************************************)
\* at most maxTouch projectiles are in contact with the boss in one tick
\* (pick j names a projectile index and an offset, index 0 names none; the
\* named indices increase)
TouchPicks(n, maxTouch, offsets) ==
  { pick \in [1..maxTouch -> {<<0, 0>>} \cup ((1..n) \X offsets)] :
      \A j \in 1..(maxTouch - 1) :
         pick[j][1] = 0 \/ pick[j][1] < pick[j + 1][1] }

touchOf(pick, n) ==
  [i \in 1..n |->
     IF \E j \in DOMAIN pick : pick[j][1] = i
       THEN pick[CHOOSE j \in DOMAIN pick :
                    /\ pick[j][1] = i
                    /\ \A k \in DOMAIN pick : pick[k][1] = i => j <= k][2]
       ELSE NoTouch]

\* the tHit of a projectile in a tick.  For a projectile at the caster's
\* position when caster and target are co-located, sweptCircleHitT is
\* called with mx = my = 0, so c = -R*R <= 0 and it returns 0, an immediate
\* hit.  Elsewhere contact is the input touched.
contactTime(colocated, p, touched) ==
  IF colocated /\ p.atCaster THEN 0 ELSE touched

contactOf(P, projs, touch) ==
  [i \in 1..Len(projs) |-> contactTime(P.colocated, projs[i], touch[i])]

canSpawnChildren(s) ==
  \E k \in 1..Len(s.projectiles) :
     s.projectiles[k].splitCount > 0 \/ s.projectiles[k].forkRemaining > 0

ChildTouches(s, maxTouch, offsets) ==
  IF canSpawnChildren(s) /\ maxTouch > 0 THEN {NoTouch} \cup offsets
  ELSE {NoTouch}

ForkRolls(s) == IF canSpawnChildren(s) THEN ForkRollValues ELSE {0}

Streams(P, draws) == IF draws = 0 THEN {<<>>} ELSE P.streams

(***************************************************************************)
(* Profiles                                                                *)
(***************************************************************************)
\* Spec: every scheduler input varies; one seal per 0.05 s; a frame every
\* 0.125 s, so that a tick falls between the expiry of a 0.1 s twister and
\* the first repeat; no contact
SchedulerConfigs ==
  { readConfigFromDOM(1, w, ms, 1, bc, tbr, dur, 2000, 2) :
      w \in 0..MaxWhirlwind, ms \in 0..MaxSealCap, bc \in 0..MaxBarrage,
      tbr \in {0, defaultTimeBetweenRepeats},
      dur \in {0 - UnitsPerSecond, UnitsPerSecond \div 10} }

\* the page opens with no whirlwind stage, one seal, one barrage repeat
\* every 0.15 s and twisters that last 0.1 s
SchedulerPageConfig ==
  readConfigFromDOM(1, 0, 1, 1, 1, defaultTimeBetweenRepeats,
                    UnitsPerSecond \div 10, 2000, 2)

SchedulerProfile ==
  [ configs |-> SchedulerConfigs, initConfigs |-> {SchedulerPageConfig},
    advances |-> {defaultTimeBetweenRepeats - 3 * fixedDt},
    maxClock |-> MaxClock, maxCastId |-> MaxCastId,
    maxUiEvents |-> MaxUiEvents, maxTouch |-> 0, maxHits |-> 0,
    offsets |-> HitOffsets, colocated |-> FALSE,
    streams |-> {RandStream(k) : k \in 0..MaxStream} ]

\* SpecLedger: the page default of one seal per 2 s, projectiles that
\* never expire, one angle
LedgerConfigs ==
  { readConfigFromDOM(1, 0, ms, 1, bc, defaultTimeBetweenRepeats,
                      0 - UnitsPerSecond, 50, 2) :
      ms \in 0..LedgerMaxSealCap, bc \in 0..LedgerMaxBarrage }

\* the page opens with no seal and no barrage repeat
LedgerPageConfig ==
  readConfigFromDOM(1, 0, 0, 1, 0, defaultTimeBetweenRepeats,
                    0 - UnitsPerSecond, 50, 2)

LedgerProfile ==
  [ configs |-> LedgerConfigs, initConfigs |-> {LedgerPageConfig},
    advances |-> {PER_CAST_TARGET_COOLDOWN},
    maxClock |-> LedgerMaxClock, maxCastId |-> LedgerMaxCastId,
    maxUiEvents |-> LedgerMaxUiEvents, maxTouch |-> LedgerMaxTouch,
    maxHits |-> LedgerMaxHits, offsets |-> HitOffsets, colocated |-> FALSE,
    streams |-> {RandStream(0)} ]

\* SpecResolver: handleProjectileEnemyCollision as a function of the
\* projectile it is given.  readConfigFromDOM fixes the budgets at
\* 999 / 0 / 0 / 0; here the projectiles of the one cast are constructed
\* with budgets from bounded sets, they last 6 s or never expire, a fork
\* adds its third child on one of the two rolls, and contact is found at
\* the tick's time.
ResolverConfigs ==
  { [ readConfigFromDOM(1, 0, 0, 1, 0, defaultTimeBetweenRepeats,
                        dur, 50, 2)
        EXCEPT !.pierceCount = pr, !.forkTimes = fk, !.chainCount = ch,
               !.splitCount = sp, !.forkChance = 50 ] :
      pr \in {0, ResolverMaxBudget}, fk \in {0, ResolverMaxBudget},
      ch \in {0, ResolverMaxBudget}, sp \in {0, ResolverMaxSplit},
      dur \in {6 * UnitsPerSecond, 0 - UnitsPerSecond} }

ResolverProfile ==
  [ configs |-> ResolverConfigs, initConfigs |-> ResolverConfigs,
    advances |-> {PER_CAST_TARGET_COOLDOWN},
    maxClock |-> ResolverMaxClock, maxCastId |-> 1,
    maxUiEvents |-> 1, maxTouch |-> ResolverMaxTouch,
    maxHits |-> ResolverMaxHits, offsets |-> {0}, colocated |-> FALSE,
    streams |-> {RandStream(0)} ]

\* SpecSeals: the seal counter.  The Base Projectiles input, Max Seals, the
\* number of seals to wait for and the seal gain frequency vary (one seal
\* per 0.05 s, or one per 0.005 s, which is several per tick); no barrage,
\* twisters that last 0.05 s, a frame every 0.05 s, no contact.
SealsConfigs ==
  { readConfigFromDOM(pc, 0, ms, ssc, 0, defaultTimeBetweenRepeats,
                      UnitsPerSecond \div 20, freq, 2) :
      pc \in 1..SealsMaxBase, ms \in 0..SealsMaxSealCap,
      ssc \in 0..SealsMaxThreshold, freq \in {2000, 20000} }

\* the page opens with one base projectile, one seal to hold and to wait for
SealsPageConfig ==
  readConfigFromDOM(1, 0, 1, 1, 0, defaultTimeBetweenRepeats,
                    UnitsPerSecond \div 20, 2000, 2)

SealsProfile ==
  [ configs |-> SealsConfigs, initConfigs |-> {SealsPageConfig},
    advances |-> {frameClamp},
    maxClock |-> SealsMaxClock, maxCastId |-> SealsMaxCastId,
    maxUiEvents |-> SealsMaxUiEvents, maxTouch |-> 0, maxHits |-> 0,
    offsets |-> HitOffsets, colocated |-> FALSE,
    streams |-> {RandStream(0)} ]

\* SpecOverlap: caster and target at one position, so a projectile that has
\* not moved overlaps the target.  Max Seals varies, one seal per 2 s or
\* per 0.05 s, no barrage, twisters that never expire, a frame every 0.66 s.
OverlapConfigs ==
  { readConfigFromDOM(1, 0, ms, 1, 0, defaultTimeBetweenRepeats,
                      0 - UnitsPerSecond, freq, 2) :
      ms \in 0..OverlapMaxSealCap, freq \in {50, 2000} }

OverlapPageConfig ==
  readConfigFromDOM(1, 0, 1, 1, 0, defaultTimeBetweenRepeats,
                    0 - UnitsPerSecond, 50, 2)

OverlapProfile ==
  [ configs |-> OverlapConfigs, initConfigs |-> {OverlapPageConfig},
    advances |-> {PER_CAST_TARGET_COOLDOWN},
    maxClock |-> OverlapMaxClock, maxCastId |-> OverlapMaxCastId,
    maxUiEvents |-> OverlapMaxUiEvents, maxTouch |-> OverlapMaxTouch,
    maxHits |-> OverlapMaxHits, offsets |-> HitOffsets, colocated |-> TRUE,
    streams |-> {RandStream(0)} ]

\* SpecControl: the Start, Stop and Reset buttons around casts in flight.
\* One seal per 0.1 s, one barrage repeat 0.15 s after its cast, twisters
\* that last 0.1 s, a frame every 0.05 s, contact in any frame.
ControlPageConfig ==
  readConfigFromDOM(1, 0, 1, 1, 1, defaultTimeBetweenRepeats,
                    UnitsPerSecond \div 10, 1000, 2)

ControlProfile ==
  [ configs |-> {ControlPageConfig}, initConfigs |-> {ControlPageConfig},
    advances |-> {frameClamp},
    maxClock |-> ControlMaxClock, maxCastId |-> ControlMaxCastId,
    maxUiEvents |-> ControlMaxUiEvents, maxTouch |-> ControlMaxTouch,
    maxHits |-> ControlMaxHits, offsets |-> {0}, colocated |-> FALSE,
    streams |-> {RandStream(0)} ]

\* SpecBurst: the cast trigger of step().  Number(elem.value) is not
\* clamped, so the number of seals to wait for is 1 or -1; Max Seals is 0
\* or 1, one seal per 0.05 s, no barrage, twisters that last 0.05 s, a
\* frame every two ticks, no contact.
BurstConfigs ==
  { readConfigFromDOM(1, 0, ms, ssc, 0, defaultTimeBetweenRepeats,
                      UnitsPerSecond \div 20, 2000, 2) :
      ms \in 0..1, ssc \in {0 - 1, 1} }

BurstPageConfig ==
  readConfigFromDOM(1, 0, 1, 1, 0, defaultTimeBetweenRepeats,
                    UnitsPerSecond \div 20, 2000, 2)

BurstProfile ==
  [ configs |-> BurstConfigs, initConfigs |-> {BurstPageConfig},
    advances |-> {2 * fixedDt},
    maxClock |-> BurstMaxClock, maxCastId |-> BurstMaxCastId,
    maxUiEvents |-> BurstMaxUiEvents, maxTouch |-> 0, maxHits |-> 0,
    offsets |-> {0}, colocated |-> FALSE,
    streams |-> {RandStream(0)} ]

\* SpecLive: completion of cast instances.  Casts come from Start clicks
\* (Max Seals is 0, so the scheduler never holds the seal it waits for);
\* twisters last 0 s or 0.1 s, with or without one barrage repeat 0.15 s
\* after the cast; a frame every 0.05 s, no contact, no Reset.
LiveMaxDuration == UnitsPerSecond \div 10

LiveConfigs ==
  { readConfigFromDOM(1, 0, 0, 1, bc, defaultTimeBetweenRepeats, dur,
                      2000, 2) :
      bc \in 0..1, dur \in {0, LiveMaxDuration} }

LivePageConfig ==
  readConfigFromDOM(1, 0, 0, 1, 1, defaultTimeBetweenRepeats,
                    LiveMaxDuration, 2000, 2)

LiveProfile ==
  [ configs |-> LiveConfigs, initConfigs |-> {LivePageConfig},
    advances |-> {frameClamp},
    maxClock |-> LiveMaxClock, maxCastId |-> LiveMaxCastId,
    maxUiEvents |-> LiveMaxUiEvents, maxTouch |-> 0, maxHits |-> 0,
    offsets |-> {0}, colocated |-> FALSE,
    streams |-> {RandStream(0)} ]

\* the longest a cast instance of SpecLive has twisters in flight: until its
\* repeat has expired, seen by the first tick of the frame after that
LiveHorizon == defaultTimeBetweenRepeats + LiveMaxDuration + frameClamp

\* SpecHistory: a long run of short casts, so that more than ten instances
\* complete.  Caster and target co-located, two seals on Start and one per
\* scheduler cast (one seal per 0.05 s), no barrage, twisters that last
\* 0.05 s, a frame every 0.05 s.
HistoryPageConfig ==
  readConfigFromDOM(1, 0, 2, 1, 0, defaultTimeBetweenRepeats,
                    UnitsPerSecond \div 20, 2000, 2)

HistoryProfile ==
  [ configs |-> {HistoryPageConfig}, initConfigs |-> {HistoryPageConfig},
    advances |-> {frameClamp},
    maxClock |-> HistoryMaxClock, maxCastId |-> HistoryMaxCastId,
    maxUiEvents |-> HistoryMaxUiEvents, maxTouch |-> 0,
    maxHits |-> HistoryMaxHits, offsets |-> {0}, colocated |-> TRUE,
    streams |-> {RandStream(0)} ]

(***************************************************************************)
(* Initial state: the state the constructor leaves, with the configuration *)
(* the page and the URL parameters provide                                 *)
(***************************************************************************)
Constructed(cfgs) ==
  /\ nextCastId = 1
  /\ lastTime = 0
  /\ accum = 0
  /\ running = FALSE
  /\ castAccumulator = 0
  /\ currentSeals = 0
  /\ lastSealAccumTime = 0
  /\ barrageCastSchedule = <<>>
  /\ config \in cfgs
  /\ projectiles = <<>>
  /\ hitsTotal = 0
  /\ totalDamage = 0
  /\ hitTimestamps = <<>>
  /\ castTargetLocks = <<>>
  /\ currentInstanceId = NoInstance
  /\ currentCastHits = 0
  /\ castHitHistory = <<>>
  /\ projPerCastHistory = <<>>
  /\ completedCastInstances = <<>>
  /\ grantedHits = <<>>
  /\ castLedger = <<>>
  /\ completedOrder = <<>>
  /\ simulated = 0
  /\ hitLog = <<>>
  /\ emitLog = <<>>
  /\ uiEvents = 0

NoCall == [fn |-> "none"]

\* a part of the page that a specification does not load
NotLoaded == [loaded |-> FALSE]

OnlySimulation ==
  /\ urlUpdate = NotLoaded
  /\ page = NotLoaded
  /\ builder = NotLoaded

InitWith(cfgs) ==
  /\ Constructed(cfgs)
  /\ probe = NoCall
  /\ outcome = NoCall
  /\ OnlySimulation

(***************************************************************************)
(* Geometry.  Coordinates are integers.  A time in a sub-step is a number  *)
(* (num + sgn * sqrt(sq)) / den with den > 0, kept as its four integers and *)
(* compared exactly; null is none |-> TRUE.                                 *)
(***************************************************************************)
NullTime == [none |-> TRUE, num |-> 0, sgn |-> 0, sq |-> 0, den |-> 1]

Time(num, sgn, sq, den) ==
  [none |-> FALSE, num |-> num, sgn |-> sgn, sq |-> sq, den |-> den]

\* t > k / n, for n > 0
timeAfter(t, k, n) ==
  LET X == t.den * k - t.num * n
  IN CASE t.sgn = 0 -> 0 > X
       [] t.sgn = 1 -> X < 0 \/ n * n * t.sq > X * X
       [] OTHER     -> X < 0 /\ X * X > n * n * t.sq

\* t < k / n, for n > 0
timeBefore(t, k, n) ==
  LET X == t.den * k - t.num * n
  IN CASE t.sgn = 0 -> 0 < X
       [] t.sgn = 1 -> X > 0 /\ n * n * t.sq < X * X
       [] OTHER     -> X > 0 \/ X * X < n * n * t.sq

inUnitInterval(t) == ~timeBefore(t, 0, 1) /\ ~timeAfter(t, 1, 1)

\* a variant that tries the later root first
sweptCircleHitT_LaterRoot(px, py, dx, dy, cx, cy, R) ==
  LET mx == px - cx
      my == py - cy
      a == dx * dx + dy * dy
      b == 2 * (dx * mx + dy * my)
      c == mx * mx + my * my - R * R
      disc == b * b - 4 * a * c
      t1 == Time(0 - b, 0 - 1, disc, 2 * a)
      t2 == Time(0 - b, 1, disc, 2 * a)
  IN IF c <= 0 THEN Time(0, 0, 0, 1)
     ELSE IF a = 0 THEN NullTime
     ELSE IF disc < 0 THEN NullTime
     ELSE IF inUnitInterval(t2) THEN t2
     ELSE IF inUnitInterval(t1) THEN t1
     ELSE NullTime

\* earliest t in [0,1] for moving circle vs target circle
sweptCircleHitT(px, py, dx, dy, cx, cy, R) ==
  LET mx == px - cx
      my == py - cy
      a == dx * dx + dy * dy
      b == 2 * (dx * mx + dy * my)
      c == mx * mx + my * my - R * R
      disc == b * b - 4 * a * c
      t1 == Time(0 - b, 0 - 1, disc, 2 * a)
      t2 == Time(0 - b, 1, disc, 2 * a)
  IN IF c <= 0 THEN Time(0, 0, 0, 1)
     ELSE IF a = 0 THEN NullTime
     ELSE IF disc < 0 THEN NullTime
     ELSE IF inUnitInterval(t1) THEN t1
     ELSE IF inUnitInterval(t2) THEN t2
     ELSE NullTime

\* Math.sign
sign(x) == IF x > 0 THEN 1 ELSE IF x < 0 THEN 0 - 1 ELSE 0

\* the sign of A + B * sqrt(q)
signRoot(A, B, q) ==
  IF B = 0 \/ q = 0 THEN sign(A)
  ELSE IF A = 0 \/ sign(A) = sign(B) THEN sign(B)
  ELSE sign(A) * sign(A * A - B * B * q)

\* the sign of P + al * sqrt(q1) + ga * sqrt(q2)
signSum(P, al, q1, ga, q2) ==
  LET su == signRoot(P, al, q1)
      sw == signRoot(0, ga, q2)
  IN IF su = 0 THEN sw
     ELSE IF sw = 0 \/ su = sw THEN su
     ELSE su * signRoot(P * P + al * al * q1 - ga * ga * q2, 2 * P * al, q1)

\* the same time with num, sqrt(sq) and den halved where that is exact
reduced(t) ==
  IF t.num % 2 = 0 /\ t.den % 2 = 0 /\ t.sq % 4 = 0
    THEN [t EXCEPT !.num = @ \div 2, !.sq = @ \div 4, !.den = @ \div 2]
    ELSE t

\* the same time without its root where sq is a square
rationalOf(t) ==
  IF \E k \in 0..t.sq : k * k = t.sq
    THEN LET k == CHOOSE k \in 0..t.sq : k * k = t.sq
         IN [t EXCEPT !.num = @ + t.sgn * k, !.sgn = 0, !.sq = 0]
    ELSE t

\* s < t
timeLess(s, t) ==
  LET s1 == reduced(s)
      t1 == reduced(t)
      fs == IF s1.den = t1.den THEN 1 ELSE t1.den
      ft == IF s1.den = t1.den THEN 1 ELSE s1.den
  IN signSum(s1.num * fs - t1.num * ft, s1.sgn * fs, s1.sq,
             0 - t1.sgn * ft, t1.sq) < 0

\* (a1 + a2 sqrt(q)) (b1 + b2 sqrt(q)), as the pair of its two integers
mul(a, b, q) == <<a[1] * b[1] + a[2] * b[2] * q, a[1] * b[2] + a[2] * b[1]>>

\* A reported normal: the vector W = (ax + bx sqrt(q), ay + by sqrt(q))
\* divided by sqrt(len2), where len2 is the square of what the code divides
\* by: |W|^2 for W / (Math.hypot(W) || 1), or 1 when W is the zero vector.
Normal(ax, bx, ay, by, q, len2) ==
  [ax |-> ax, bx |-> bx, ay |-> ay, by |-> by, q |-> q, len2 |-> len2]

\* Math.hypot(W)^2 || 1
hypot2Or1(ax, bx, ay, by, q) ==
  LET A == ax * ax + ay * ay + q * (bx * bx + by * by)
      B == 2 * (ax * bx + ay * by)
  IN IF signRoot(ax, bx, q) = 0 /\ signRoot(ay, by, q) = 0
       THEN <<1, 0>>
       ELSE <<A, B>>

NoHit == [hit |-> FALSE]

\* Projectile.reflect(nx, ny): the new velocity, multiplied by n.len2
reflect(vx, vy, n) ==
  LET vdotw == <<vx * n.ax + vy * n.ay, vx * n.bx + vy * n.by>>
      wx == mul(vdotw, <<n.ax, n.bx>>, n.q)
      wy == mul(vdotw, <<n.ay, n.by>>, n.q)
  IN [ x |-> <<vx * n.len2[1] - 2 * wx[1], vx * n.len2[2] - 2 * wx[2]>>,
       y |-> <<vy * n.len2[1] - 2 * wy[1], vy * n.len2[2] - 2 * wy[2]>> ]

\* CircleArena.collideCircle(x, y, r), for an arena centred at the origin
CircleArenaCollideCircle(x, y, r, radius) ==
  LET limit == radius - r
  IN IF limit < 0 \/ x * x + y * y > limit * limit
       THEN [hit |-> TRUE, n |-> Normal(x, 0, y, 0, 0, <<x * x + y * y, 0>>)]
       ELSE NoHit

\* SquareArena.collideCircle(x, y, r), for the rectangle (rx, ry, w, h);
\* of two tests on one axis the later assignment stands
SquareArenaCollideCircle(x, y, r, rx, ry, w, h) ==
  LET nx == IF x + r > rx + w THEN 1 ELSE IF x - r < rx THEN 0 - 1 ELSE 0
      ny == IF y + r > ry + h THEN 1 ELSE IF y - r < ry THEN 0 - 1 ELSE 0
  IN IF nx = 0 /\ ny = 0 THEN NoHit
     ELSE [hit |-> TRUE,
           n |-> Normal(nx, 0, ny, 0, 0, hypot2Or1(nx, 0, ny, 0, 0))]

\* Math.abs
abs(x) == IF x < 0 THEN 0 - x ELSE x

\* the normal of an endcap hit at time t on the circle around (ex, ey):
\* (p - e) / (Math.hypot(p - e) || 1) for p = p0 + d t
endcapNormal(p0x, p0y, dx, dy, ex, ey, t) ==
  LET t1 == rationalOf(reduced(t))
      ax == (p0x - ex) * t1.den + dx * t1.num
      ay == (p0y - ey) * t1.den + dy * t1.num
      bx == dx * t1.sgn
      by == dy * t1.sgn
  IN Normal(ax, bx, ay, by, t1.sq, hypot2Or1(ax, bx, ay, by, t1.sq))

\* one pass of the loop over sgn: the strip candidate, ok when it is pushed.
\* With L = Math.hypot(u), w0 = L p0n and wd = L dn, and EPS read as 0.
stripCandidate(sgn, p0x, p0y, dx, dy, ax, ay, ux, uy, L, r) ==
  LET w0 == (0 - uy) * (p0x - ax) + ux * (p0y - ay)
      wd == (0 - uy) * dx + ux * dy
      tm == Time((sgn * r * L - w0) * sign(wd), 0, 0, abs(wd))
      s == (ux * (p0x - ax) + uy * (p0y - ay)) * tm.den
             + (ux * dx + uy * dy) * tm.num
      normSign == sign(w0 * tm.den + wd * tm.num * sign(wd))
  IN [ ok |-> /\ wd # 0
              /\ inUnitInterval(tm)
              /\ s >= 0
              /\ s <= L * L * tm.den,
       t |-> tm,
       n |-> IF normSign >= 0
               THEN Normal(0 - uy, 0, ux, 0, 0, <<L * L, 0>>)
               ELSE Normal(uy, 0, 0 - ux, 0, 0, <<L * L, 0>>) ]

endcapCandidate(p0x, p0y, dx, dy, ex, ey, r) ==
  LET tA == sweptCircleHitT(p0x, p0y, dx, dy, ex, ey, r)
  IN [ ok |-> ~tA.none /\ inUnitInterval(tA),
       t |-> tA,
       n |-> endcapNormal(p0x, p0y, dx, dy, ex, ey, tA) ]

\* the first of the candidates with the least t
earliest(candidates) ==
  IF candidates = <<>> THEN NoHit
  ELSE LET i == CHOOSE k \in 1..Len(candidates) :
                  /\ \A j \in 1..(k - 1) :
                        timeLess(candidates[k].t, candidates[j].t)
                  /\ \A j \in (k + 1)..Len(candidates) :
                        ~timeLess(candidates[j].t, candidates[k].t)
       IN [hit |-> TRUE, t |-> candidates[i].t, n |-> candidates[i].n]

\* time of impact of a moving circle on a wall segment of integer length
sweptCircleSegmentTOI(p0x, p0y, dx, dy, ax, ay, bx, by, r) ==
  LET ux == bx - ax
      uy == by - ay
      L == CHOOSE l \in 0..(abs(ux) + abs(uy)) : l * l = ux * ux + uy * uy
      tCircle == sweptCircleHitT(p0x, p0y, dx, dy, ax, ay, r)
      candidates ==
        SelectSeq(
          << stripCandidate(1, p0x, p0y, dx, dy, ax, ay, ux, uy, L, r),
             stripCandidate(0 - 1, p0x, p0y, dx, dy, ax, ay, ux, uy, L, r),
             endcapCandidate(p0x, p0y, dx, dy, ax, ay, r),
             endcapCandidate(p0x, p0y, dx, dy, bx, by, r) >>,
          LAMBDA c : c.ok)
  IN IF L = 0
       THEN IF tCircle.none THEN NoHit
            ELSE [hit |-> TRUE, t |-> tCircle,
                  n |-> endcapNormal(p0x, p0y, dx, dy, ax, ay, tCircle)]
       ELSE earliest(candidates)

\* this.maxTerrainStepPx, in grid units (pixels)
maxTerrainStepPx == 2

\* proj.radius * 1.001 on the grid: the least grid distance beyond r
pushOut(r) == r + 1

\* TJunctionArena.segments, centred on the origin, for an inner stem of
\* width 2k and length 4k under an inner bar of width 6k and height 2k
TJunctionSegments(k) ==
  LET connectY == 0 - 2 * k
      barTopY == connectY - k
      barBotY == connectY + k
      stemLeftX == 0 - k
      stemRightX == k
      stemBotY == 2 * k
      barLeftX == 0 - 3 * k
      barRightX == 3 * k
  IN << <<stemLeftX, barBotY, stemLeftX, stemBotY>>,
        <<stemRightX, barBotY, stemRightX, stemBotY>>,
        <<stemLeftX, stemBotY, stemRightX, stemBotY>>,
        <<barLeftX, barTopY, barRightX, barTopY>>,
        <<barLeftX, barBotY, stemLeftX, barBotY>>,
        <<stemRightX, barBotY, barRightX, barBotY>>,
        <<barLeftX, barTopY, barLeftX, barBotY>>,
        <<barRightX, barTopY, barRightX, barBotY>> >>

\* Math.max(1, Math.ceil(totalDist / this.maxTerrainStepPx)) for a
\* displacement (Dx, Dy) in the tick
substeps(Dx, Dy) ==
  CHOOSE n \in 1..(abs(Dx) + abs(Dy) + 1) :
    /\ n * n * maxTerrainStepPx * maxTerrainStepPx >= Dx * Dx + Dy * Dy
    /\ n = 1 \/ (n - 1) * (n - 1) * maxTerrainStepPx * maxTerrainStepPx
                   < Dx * Dx + Dy * Dy

\* a reported normal as a grid vector, where it is one
onGrid(n) ==
  /\ n.bx = 0 /\ n.by = 0 /\ n.len2[2] = 0
  /\ \E l \in 1..n.len2[1] :
       l * l = n.len2[1] /\ n.ax % l = 0 /\ n.ay % l = 0

gridNormal(n) ==
  LET l == CHOOSE l \in 1..n.len2[1] : l * l = n.len2[1]
  IN <<n.ax \div l, n.ay \div l>>

\* The terrain part of one sub-step of Simulation.step in the T-corridor,
\* for a projectile proj = [x, y, dx, dy, r, exact] that has just moved by
\* its sub-step displacement (dx, dy).  A contact whose point or normal is
\* off the grid is not followed (exact |-> FALSE).
terrainSubstep(proj, segments) ==
  LET p0x == proj.x - proj.dx
      p0y == proj.y - proj.dy
      hits == [i \in 1..Len(segments) |->
                 sweptCircleSegmentTOI(p0x, p0y, proj.dx, proj.dy,
                                       segments[i][1], segments[i][2],
                                       segments[i][3], segments[i][4],
                                       proj.r)]
      best == earliest(SelectSeq(hits,
                                 LAMBDA h : h.hit /\ inUnitInterval(h.t)))
      t == rationalOf(reduced(best.t))
      n == gridNormal(best.n)
      after == reflect(proj.dx, proj.dy, best.n)
  IN IF ~best.hit THEN proj
     ELSE IF \/ t.sgn # 0
             \/ (proj.dx * t.num) % t.den # 0
             \/ (proj.dy * t.num) % t.den # 0
             \/ ~onGrid(best.n)
       THEN [proj EXCEPT !.exact = FALSE]
       ELSE [proj EXCEPT
               !.x = p0x + (proj.dx * t.num) \div t.den + n[1] * pushOut(proj.r),
               !.y = p0y + (proj.dy * t.num) \div t.den + n[2] * pushOut(proj.r),
               !.dx = after.x[1] \div best.n.len2[1],
               !.dy = after.y[1] \div best.n.len2[1]]

\* the sub-steps s..steps of the tick, for a projectile out of reach of
\* the boss (tHit === null, so proj.move(subdt))
RECURSIVE substepLoop(_, _, _, _, _)
substepLoop(proj, s, steps, boss, segments) ==
  IF s > steps \/ ~proj.exact THEN proj
  ELSE IF ~sweptCircleHitT(proj.x, proj.y, proj.dx, proj.dy,
                           boss.x, boss.y, proj.r + boss.r).none
    THEN [proj EXCEPT !.exact = FALSE]
    ELSE substepLoop(terrainSubstep([proj EXCEPT !.x = @ + proj.dx,
                                                 !.y = @ + proj.dy],
                                    segments),
                     s + 1, steps, boss, segments)

\* the projectile loop of Simulation.step for one T-corridor projectile at
\* (x, y) that moves by (Dx, Dy) in the tick
stepProjectile(x, y, Dx, Dy, r, boss, segments) ==
  LET steps == substeps(Dx, Dy)
  IN substepLoop([x |-> x, y |-> y, dx |-> Dx \div steps,
                  dy |-> Dy \div steps, r |-> r, exact |-> TRUE],
                 1, steps, boss, segments)

(***************************************************************************)
(* Actions, over the inputs of a profile P                                 *)
(***************************************************************************)
withinBounds(P, s) ==
  /\ s.nextCastId <= P.maxCastId + 1
  /\ Len(s.grantedHits) <= P.maxHits

\* contact with the boss is sampled in the last tick of a frame
contactsIn(P, acc) == IF acc < 2 * fixedDt THEN P.maxTouch ELSE 0

\* loop(t), up to the while loop: the frame's elapsed time is clamped and
\* added to the accumulator
loopHead(P) ==
  \E adv \in P.advances :
    /\ accum < fixedDt
    /\ lastTime + adv <= P.maxClock
    /\ lastTime' = lastTime + adv
    /\ accum' = accum + (IF adv < frameClamp THEN adv ELSE frameClamp)
    /\ hitLog' = <<>>
    /\ emitLog' = <<>>
    /\ UNCHANGED <<nextCastId, running, castAccumulator, currentSeals,
                   lastSealAccumTime, barrageCastSchedule, config,
                   projectiles, hitsTotal, totalDamage, hitTimestamps,
                   castTargetLocks, currentInstanceId, currentCastHits,
                   castHitHistory, projPerCastHistory,
                   completedCastInstances, grantedHits, castLedger,
                   completedOrder, uiEvents, simulated, probe, outcome,
                   urlUpdate, page, builder>>

\* one iteration of the while loop of loop(t): step(fixedDt), with
\* performance.now() read as the time of the frame
loopStep(P) ==
  /\ accum >= fixedDt
  /\ \E rnd \in Streams(P, drawsOfStep(Sim, fixedDt)) :
       \E s1 \in {stepScheduler(Sim, fixedDt, lastTime, rnd)} :
         \E pick \in TouchPicks(Len(s1.projectiles), contactsIn(P, accum),
                                P.offsets),
            childTouch \in ChildTouches(s1, contactsIn(P, accum), P.offsets),
            roll \in ForkRolls(s1) :
           \E s2 \in {step(Sim, fixedDt, lastTime, rnd,
                            contactOf(P, s1.projectiles,
                                      touchOf(pick, Len(s1.projectiles))),
                            childTouch, roll)} :
             withinBounds(P, s2) /\ Install(s2)
  /\ accum' = accum - fixedDt
  /\ UNCHANGED <<lastTime, uiEvents>>

\* a click or input event is dispatched between two frames
uiEvent(P) ==
  /\ accum < fixedDt
  /\ uiEvents < P.maxUiEvents
  /\ uiEvents' = uiEvents + 1
  /\ UNCHANGED <<lastTime, accum>>

\* a variant that leaves the cast accumulator as it is
startBtnClick_KeepsAccumulator(P) ==
  /\ uiEvent(P)
  /\ \E rnd \in Streams(P, drawsOfCast(config, config.maxSeals)) :
       \E s1 \in {emitCast([Sim EXCEPT !.running = TRUE,
                                        !.currentSeals = config.maxSeals],
                            lastTime, rnd)} :
         withinBounds(P, s1) /\ Install(s1)

\* startBtn click
startBtnClick(P) ==
  /\ uiEvent(P)
  /\ \E rnd \in Streams(P, drawsOfCast(config, config.maxSeals)) :
       \E s1 \in {emitCast([Sim EXCEPT !.running = TRUE,
                                        !.castAccumulator = 0,
                                        !.currentSeals = config.maxSeals],
                            lastTime, rnd)} :
         withinBounds(P, s1) /\ Install(s1)

\* stopBtn click
stopBtnClick(P) ==
  /\ uiEvent(P)
  /\ Install([Sim EXCEPT !.running = FALSE, !.castAccumulator = 0])

\* resetBtn click
resetBtnClick(P) ==
  /\ uiEvent(P)
  /\ \E s1 \in {reset(Sim)} : withinBounds(P, s1) /\ Install(s1)

\* 'input' event on one configuration element
oneFieldChanged(c, d) ==
  Cardinality({f \in DOMAIN c : c[f] # d[f]}) = 1

configInput(P) ==
  /\ uiEvent(P)
  /\ \E c \in P.configs :
       /\ oneFieldChanged(config, c)
       /\ Install([Sim EXCEPT !.running = FALSE, !.config = c])

(***************************************************************************)
(* Spec: the cast scheduler                                                *)
(***************************************************************************)
Init == InitWith(SchedulerProfile.initConfigs)

Frame == loopHead(SchedulerProfile)

Step == loopStep(SchedulerProfile)

StartClick == startBtnClick(SchedulerProfile)

StopClick == stopBtnClick(SchedulerProfile)

ResetClick == resetBtnClick(SchedulerProfile)

ConfigInput == configInput(SchedulerProfile)

Next == Frame \/ Step \/ StartClick \/ StopClick \/ ResetClick \/ ConfigInput

Spec == Init /\ [][Next]_vars

(***************************************************************************)
(* SpecLedger: the hit-group cooldown ledger                               *)
(***************************************************************************)
LedgerInit == InitWith(LedgerProfile.initConfigs)

LedgerFrame == loopHead(LedgerProfile)

LedgerStep == loopStep(LedgerProfile)

LedgerStartClick == startBtnClick(LedgerProfile)

LedgerStopClick == stopBtnClick(LedgerProfile)

LedgerResetClick == resetBtnClick(LedgerProfile)

LedgerConfigInput == configInput(LedgerProfile)

LedgerNext ==
  \/ LedgerFrame
  \/ LedgerStep
  \/ LedgerStartClick
  \/ LedgerStopClick
  \/ LedgerResetClick
  \/ LedgerConfigInput

SpecLedger == LedgerInit /\ [][LedgerNext]_vars

(***************************************************************************)
(* SpecResolver: the behaviour resolver                                    *)
(***************************************************************************)
ResolverInit == InitWith(ResolverProfile.initConfigs)

ResolverFrame == loopHead(ResolverProfile)

ResolverStep == loopStep(ResolverProfile)

ResolverStartClick == startBtnClick(ResolverProfile)

ResolverNext == ResolverFrame \/ ResolverStep \/ ResolverStartClick

SpecResolver == ResolverInit /\ [][ResolverNext]_vars

(***************************************************************************)
(* SpecSeals: the seal counter                                             *)
(***************************************************************************)
SealsInit == InitWith(SealsProfile.initConfigs)

SealsFrame == loopHead(SealsProfile)

SealsStep == loopStep(SealsProfile)

SealsStartClick == startBtnClick(SealsProfile)

SealsStopClick == stopBtnClick(SealsProfile)

SealsResetClick == resetBtnClick(SealsProfile)

SealsConfigInput == configInput(SealsProfile)

SealsNext ==
  \/ SealsFrame
  \/ SealsStep
  \/ SealsStartClick
  \/ SealsStopClick
  \/ SealsResetClick
  \/ SealsConfigInput

SpecSeals == SealsInit /\ [][SealsNext]_vars

(***************************************************************************)
(* SpecOverlap: caster and target co-located                               *)
(***************************************************************************)
OverlapInit == InitWith(OverlapProfile.initConfigs)

OverlapFrame == loopHead(OverlapProfile)

OverlapStep == loopStep(OverlapProfile)

OverlapStartClick == startBtnClick(OverlapProfile)

OverlapStopClick == stopBtnClick(OverlapProfile)

OverlapResetClick == resetBtnClick(OverlapProfile)

OverlapConfigInput == configInput(OverlapProfile)

OverlapNext ==
  \/ OverlapFrame
  \/ OverlapStep
  \/ OverlapStartClick
  \/ OverlapStopClick
  \/ OverlapResetClick
  \/ OverlapConfigInput

SpecOverlap == OverlapInit /\ [][OverlapNext]_vars

(***************************************************************************)
(* SpecControl: Start, Stop and Reset with casts in flight                 *)
(***************************************************************************)
ControlNext ==
  \/ loopHead(ControlProfile)
  \/ loopStep(ControlProfile)
  \/ startBtnClick(ControlProfile)
  \/ stopBtnClick(ControlProfile)
  \/ resetBtnClick(ControlProfile)

SpecControl == InitWith(ControlProfile.initConfigs) /\ [][ControlNext]_vars

(***************************************************************************)
(* SpecHistory: the per-cast histories over a long run                     *)
(***************************************************************************)
HistoryNext ==
  \/ loopHead(HistoryProfile)
  \/ loopStep(HistoryProfile)
  \/ startBtnClick(HistoryProfile)
  \/ stopBtnClick(HistoryProfile)
  \/ resetBtnClick(HistoryProfile)

SpecHistory == InitWith(HistoryProfile.initConfigs) /\ [][HistoryNext]_vars

(***************************************************************************)
(* SpecGeometry: one call of a geometry function on arguments drawn from   *)
(* bounded sets of integers                                                *)
(***************************************************************************)
Coords == (0 - GeoMaxCoord)..GeoMaxCoord

Steps == (0 - GeoMaxStep)..GeoMaxStep

SweepProbes ==
  [ fn : {"sweptCircleHitT"}, px : Coords, py : Coords, dx : Steps,
    dy : Steps, cx : {0, 1}, cy : {0}, R : 1..GeoMaxRadius ]

\* a projectile of radius r at (x, y) in a circle arena around the origin
CircleProbes ==
  [ fn : {"CircleArena.collideCircle"}, x : Coords, y : Coords,
    r : 1..GeoMaxRadius, radius : 1..GeoMaxCoord ]

\* the same in the square arena of half side GeoMaxCoord - 1
SquareProbes ==
  [ fn : {"SquareArena.collideCircle"}, x : Coords, y : Coords,
    r : 1..GeoMaxRadius ]

\* wall segments <<ax, ay, bx, by>>: along each axis in both directions,
\* and one of length zero
Segments ==
  { <<0, 0, 2, 0>>, <<1, 0, 0 - 1, 0>>, <<0, 0, 0, 2>>, <<0, 1, 0, 0 - 1>>,
    <<0, 0, 0, 0>> }

ToiProbes ==
  [ fn : {"sweptCircleSegmentTOI"}, p0x : Coords, p0y : Coords, dx : Steps,
    dy : Steps, seg : Segments, r : 1..GeoMaxRadius ]

CorridorCoords == (0 - 3 * GeoCorridor - 1)..(3 * GeoCorridor + 1)

Ticks == (0 - GeoMaxTick)..GeoMaxTick

\* a projectile of radius r at (x, y) in or around the corridor, with a
\* displacement per tick that its sub-steps divide on the grid, and the
\* boss outside the corridor
StepProbes ==
  { p \in [ fn : {"step"}, x : CorridorCoords, y : CorridorCoords,
            Dx : Ticks, Dy : Ticks, r : 1..GeoMaxRadius,
            boss : {[x |-> 3 * GeoCorridor, y |-> 2 * GeoCorridor, r |-> 1]} ] :
      /\ p.Dx # 0 \/ p.Dy # 0
      /\ p.Dx % substeps(p.Dx, p.Dy) = 0
      /\ p.Dy % substeps(p.Dx, p.Dy) = 0 }

\* applyPierce and applyChain are called on an overlap, d <= radius + boss.r,
\* with the boss at the origin; R2 is (proj.radius + boss.r) squared, so
\* that contact points off the axes are on the grid
NudgeProbes ==
  { p \in [ fn : {"applyPierce", "applyChain"}, x : Coords, y : Coords,
            R2 : 1..(2 * GeoMaxRadius * GeoMaxRadius) ] :
      p.x * p.x + p.y * p.y <= p.R2 }

GeometryInit ==
  /\ Constructed({ControlPageConfig})
  /\ probe \in SweepProbes \cup CircleProbes \cup SquareProbes
                 \cup ToiProbes \cup StepProbes \cup NudgeProbes
  /\ outcome = NoCall
  /\ OnlySimulation

returns(fn, value) ==
  /\ probe.fn = fn
  /\ outcome = NoCall
  /\ outcome' = [fn |-> fn, value |-> value]
  /\ UNCHANGED <<nextCastId, lastTime, accum, running, castAccumulator,
                 currentSeals, lastSealAccumTime, barrageCastSchedule,
                 config, projectiles, hitsTotal, totalDamage, hitTimestamps,
                 castTargetLocks, currentInstanceId, currentCastHits,
                 castHitHistory, projPerCastHistory, completedCastInstances,
                 grantedHits, castLedger, completedOrder, hitLog, emitLog,
                 uiEvents, simulated, probe, urlUpdate, page, builder>>

callSweptCircleHitT ==
  returns("sweptCircleHitT",
          sweptCircleHitT(probe.px, probe.py, probe.dx, probe.dy,
                          probe.cx, probe.cy, probe.R))

callCircleArenaCollideCircle ==
  returns("CircleArena.collideCircle",
          CircleArenaCollideCircle(probe.x, probe.y, probe.r, probe.radius))

callSquareArenaCollideCircle ==
  returns("SquareArena.collideCircle",
          SquareArenaCollideCircle(probe.x, probe.y, probe.r,
                                   1 - GeoMaxCoord, 1 - GeoMaxCoord,
                                   2 * (GeoMaxCoord - 1),
                                   2 * (GeoMaxCoord - 1)))

callSweptCircleSegmentTOI ==
  returns("sweptCircleSegmentTOI",
          sweptCircleSegmentTOI(probe.p0x, probe.p0y, probe.dx, probe.dy,
                                probe.seg[1], probe.seg[2], probe.seg[3],
                                probe.seg[4], probe.r))

\* proj.x = boss.x + nx * (boss.r + proj.radius + 0.5) with nx = dx / (d || 1):
\* the new centre is (dx * (sqrt(R2) + 1/2) / sqrt(div2), dy), kept as its
\* integers; proj.y is not assigned
nudgeAlongNormal(dx, dy, R2) ==
  [ dx |-> dx, div2 |-> IF dx * dx + dy * dy = 0 THEN 1
                        ELSE dx * dx + dy * dy,
    R2 |-> R2, y |-> dy ]

callApplyPierce ==
  returns("applyPierce", nudgeAlongNormal(probe.x, probe.y, probe.R2))

callApplyChain ==
  returns("applyChain", nudgeAlongNormal(probe.x, probe.y, probe.R2))

callStep ==
  returns("step",
          stepProjectile(probe.x, probe.y, probe.Dx, probe.Dy, probe.r,
                         probe.boss, TJunctionSegments(GeoCorridor)))

GeometryNext ==
  \/ callStep
  \/ callSweptCircleHitT
  \/ callCircleArenaCollideCircle
  \/ callSquareArenaCollideCircle
  \/ callSweptCircleSegmentTOI
  \/ callApplyPierce
  \/ callApplyChain

SpecGeometry == GeometryInit /\ [][GeometryNext]_vars

(***************************************************************************)
(* Reading the page's fields.  A field is absent or holds a text, a        *)
(* sequence of characters; a JavaScript number is NaN, an infinity or a    *)
(* fraction num / den.                                                     *)
(***************************************************************************)
Float(num, den) == [nan |-> FALSE, inf |-> FALSE, num |-> num, den |-> den]

NaN == [nan |-> TRUE, inf |-> FALSE, num |-> 0, den |-> 1]

Infinity == [nan |-> FALSE, inf |-> TRUE, num |-> 1, den |-> 1]

isFinite(v) == ~v.nan /\ ~v.inf

Digits == <<"0", "1", "2", "3", "4", "5", "6", "7", "8", "9">>

isDigit(ch) == \E d \in 1..Len(Digits) : Digits[d] = ch

digitValue(ch) == (CHOOSE d \in 1..Len(Digits) : Digits[d] = ch) - 1

RECURSIVE decimal(_)
decimal(text) ==
  IF text = <<>> THEN 0
  ELSE 10 * decimal(SubSeq(text, 1, Len(text) - 1))
         + digitValue(text[Len(text)])

\* Number(text), for texts of digits and letters: the empty text is 0,
\* digits are their decimal value, anything else is NaN
Number(text) ==
  IF \A i \in 1..Len(text) : isDigit(text[i])
    THEN Float(decimal(text), 1)
    ELSE NaN

Absent == [present |-> FALSE, value |-> <<>>]

\* getNum(id): elem ? Number(elem.value) : 0
getNum(elem) == IF elem.present THEN Number(elem.value) ELSE Float(0, 1)

\* v || d
orElse(v, d) == IF v.nan \/ (~v.inf /\ v.num = 0) THEN d ELSE v

\* a * b, a + b and a / b of JavaScript numbers that are not negative
times(a, b) ==
  IF a.nan \/ b.nan THEN NaN
  ELSE IF a.inf \/ b.inf
    THEN IF (~a.inf /\ a.num = 0) \/ (~b.inf /\ b.num = 0) THEN NaN
         ELSE Infinity
  ELSE Float(a.num * b.num, a.den * b.den)

plus(a, b) ==
  IF a.nan \/ b.nan THEN NaN
  ELSE IF a.inf \/ b.inf THEN Infinity
  ELSE Float(a.num * b.den + b.num * a.den, a.den * b.den)

divide(a, b) ==
  IF a.nan \/ b.nan THEN NaN
  ELSE IF b.inf THEN IF a.inf THEN NaN ELSE Float(0, 1)
  ELSE IF b.num = 0 THEN IF ~a.inf /\ a.num = 0 THEN NaN ELSE Infinity
  ELSE IF a.inf THEN Infinity
  ELSE Float(a.num * b.den, a.den * b.num)

\* the numeric fields of readConfigFromDOM() that the seal interval and
\* the damage of a hit are computed from
readNumericFields(dom) ==
  [ avgHit |-> getNum(dom.avgHit),
    baseSealGainFrequency |-> getNum(dom.baseSealGainFrequency),
    increasedSealGainFrequency |-> getNum(dom.increasedSealGainFrequency) ]

\* sealAccumInterval in step(dt), as the JavaScript number it is
sealAccumIntervalNumber(cfg) ==
  LET baseSealFreq == cfg.baseSealGainFrequency
      increasePercent ==
        divide(orElse(cfg.increasedSealGainFrequency, Float(0, 1)),
               Float(100, 1))
      effectiveSealFreq == times(baseSealFreq, plus(Float(1, 1), increasePercent))
  IN divide(Float(1, 1), effectiveSealFreq)

\* totalDamage after the first granted hit of a main-cast projectile
\* (damageMultiplier 1.0)
damageOfHit(cfg) ==
  plus(Float(0, 1), times(cfg.avgHit, orElse(Float(1, 1), Float(1, 1))))

Characters == {"0", "2", "a"}

Texts == UNION {[1..n -> Characters] : n \in 0..ConfigMaxText}

Fields == {Absent} \cup {[present |-> TRUE, value |-> txt] : txt \in Texts}

ConfigProbes ==
  [ fn : {"readConfigFromDOM"}, avgHit : Fields,
    baseSealGainFrequency : Fields, increasedSealGainFrequency : Fields ]

ConfigInit ==
  /\ Constructed({ControlPageConfig})
  /\ probe \in ConfigProbes
  /\ outcome = NoCall
  /\ OnlySimulation

\* a call of fn on what the call of prev returned
returnsAfter(prev, fn, value) ==
  /\ outcome.fn = prev
  /\ outcome' = [fn |-> fn, config |-> outcome.config, value |-> value]
  /\ UNCHANGED <<nextCastId, lastTime, accum, running, castAccumulator,
                 currentSeals, lastSealAccumTime, barrageCastSchedule,
                 config, projectiles, hitsTotal, totalDamage, hitTimestamps,
                 castTargetLocks, currentInstanceId, currentCastHits,
                 castHitHistory, projPerCastHistory, completedCastInstances,
                 grantedHits, castLedger, completedOrder, hitLog, emitLog,
                 uiEvents, simulated, probe, urlUpdate, page, builder>>

\* the input listener: this.config = this.readConfigFromDOM()
callReadConfigFromDOM ==
  /\ probe.fn = "readConfigFromDOM"
  /\ outcome = NoCall
  /\ outcome' = [fn |-> "readConfigFromDOM",
                 config |-> readNumericFields(probe),
                 value |-> readNumericFields(probe)]
  /\ UNCHANGED <<nextCastId, lastTime, accum, running, castAccumulator,
                 currentSeals, lastSealAccumTime, barrageCastSchedule,
                 config, projectiles, hitsTotal, totalDamage, hitTimestamps,
                 castTargetLocks, currentInstanceId, currentCastHits,
                 castHitHistory, projPerCastHistory, completedCastInstances,
                 grantedHits, castLedger, completedOrder, hitLog, emitLog,
                 uiEvents, simulated, probe, urlUpdate, page, builder>>

\* the seal accumulation of the next running tick
callStepSeals ==
  returnsAfter("readConfigFromDOM", "step",
               sealAccumIntervalNumber(outcome.config))

\* the next granted hit
callTryApplyHit ==
  returnsAfter("readConfigFromDOM", "tryApplyHit",
               damageOfHit(outcome.config))

ConfigNext ==
  \/ callReadConfigFromDOM
  \/ callStepSeals
  \/ callTryApplyHit

SpecConfig == ConfigInit /\ [][ConfigNext]_vars

(***************************************************************************)
(* Properties of the hit-group cooldown ledger (SpecLedger)                *)
(***************************************************************************)
sameKey(g, h) ==
  /\ g.instanceId = h.instanceId
  /\ g.barrageRepeatIndex = h.barrageRepeatIndex
  /\ g.salvoGroup = h.salvoGroup

\* C1: any two hits granted on the same hit-group key (instance id,
\* barrage-repeat index, salvo group, boss) are at least the cooldown of
\* 0.66 s apart, whatever ticks, casts, repeats, clicks and configuration
\* changes happened in between.
C1_GrantsOnOneKeyAreCooldownApart ==
  \A a, b \in 1..Len(grantedHits) :
     (a < b /\ sameKey(grantedHits[a], grantedHits[b]))
        => grantedHits[b].t - grantedHits[a].t >= PER_CAST_TARGET_COOLDOWN

C1_Witness ==
  \E a, b \in 1..Len(grantedHits) :
     a < b /\ sameKey(grantedHits[a], grantedHits[b])

\* C4: tryApplyHit grants exactly when now >= the key's next-allowed time
\* (0 for an unseen key); a grant sets the key's next-allowed time to
\* now + cooldown, adds exactly 1 to hitsTotal and adds
\* avgHit x the projectile's damage multiplier to totalDamage.
C4_TryApplyHitContract ==
  \A k \in 1..Len(hitLog) :
     LET e == hitLog[k]
         key == <<e.proj.instanceId, e.proj.barrageRepeatIndex,
                  e.proj.salvoGroup>>
         allowedAt == IF key \in DOMAIN e.locksBefore
                        THEN e.locksBefore[key] ELSE 0
     IN /\ e.granted <=> (e.now >= allowedAt)
        /\ e.granted =>
             /\ key \in DOMAIN e.locksAfter
             /\ e.locksAfter[key] = e.now + PER_CAST_TARGET_COOLDOWN
             /\ e.hitsAfter = e.hitsBefore + 1
             /\ e.damageAfter =
                  e.damageBefore + e.avgHit * e.proj.damageMultiplier

\* a grant on a key that was seen before, and one at a reduced multiplier
C4_Witness ==
  /\ \E k \in 1..Len(hitLog) :
        /\ hitLog[k].granted
        /\ hitLog[k].nextOk > 0
  /\ \E g \in 1..Len(grantedHits) : grantedHits[g].barrageRepeatIndex > 0

\* C5: a hit denied by the cooldown changes nothing: ledger, hit counters,
\* total damage, the projectile (budgets, heading) and the live list are as
\* before, no behaviour is applied, no child is spawned and the projectile
\* is kept.
C5_DeniedHitChangesNothing ==
  \A k \in 1..Len(hitLog) :
     LET e == hitLog[k]
     IN ~e.granted =>
          /\ e.unchanged
          /\ e.locksAfter = e.locksBefore
          /\ e.hitsAfter = e.hitsBefore
          /\ e.damageAfter = e.damageBefore
          /\ e.applied = <<>>
          /\ e.projAfter = e.proj
          /\ e.liveAfter = e.liveBefore
          /\ e.result = "keep"
          /\ \E i \in 1..Len(projectiles) : projectiles[i] = e.proj

C5_Witness ==
  \E k \in 1..Len(hitLog) : ~hitLog[k].granted

\* C6: for a cast instance that fired with S seals and B repeats, at most
\* (1 + S)(1 + B) hits are granted to its projectiles within any window
\* shorter than the cooldown.
grantsInWindow(inst, from) ==
  { h \in 1..Len(grantedHits) :
      /\ grantedHits[h].instanceId = inst
      /\ grantedHits[h].t >= from
      /\ grantedHits[h].t < from + PER_CAST_TARGET_COOLDOWN }

grantsOfInstance(inst) ==
  { h \in 1..Len(grantedHits) : grantedHits[h].instanceId = inst }

C7_RecordedHitsAreInstanceHits ==
  \A inst \in DOMAIN completedCastInstances :
     completedCastInstances[inst].hits = Cardinality(grantsOfInstance(inst))


(***************************************************************************)
(* Properties of emission and of the repeat schedule (Spec)                *)
(***************************************************************************)
\* expectedProjCount = (1 + W + 2 S)(1 + B) from the values at cast time
expectedProjCount(cast) ==
  (1 + cast.whirlwindStages + projectilesPerSeal * cast.sealCount)
    * (1 + cast.barrageCount)

\* C2: when a cast instance is marked completed, the projectile count
\* pushed to the projectiles-per-cast history is (1 + W + 2 S)(1 + B) for
\* the whirlwind stages W, seal count S and barrage count B of its cast.
C2_CompletedCountIsExpected ==
  /\ Len(projPerCastHistory) = Len(completedOrder)
  /\ \A k \in 1..Len(completedOrder) :
        completedOrder[k] \in DOMAIN castLedger
          => projPerCastHistory[k] =
               expectedProjCount(castLedger[completedOrder[k]])

groupSize(e, g) ==
  Cardinality({k \in 1..Len(e.spawned) : e.spawned[k].salvoGroup = g})

RECURSIVE entriesOf(_, _)
entriesOf(schedule, inst) ==
  IF schedule = <<>> THEN <<>>
  ELSE IF Head(schedule).instanceId = inst
    THEN <<Head(schedule)>> \o entriesOf(Tail(schedule), inst)
    ELSE entriesOf(Tail(schedule), inst)

usedCastIds(log, live, ledger) ==
  {log[n].castId : n \in 1..Len(log)}
    \cup {live[n].castId : n \in 1..Len(live)} \cup DOMAIN ledger

\* C9: a cast at time t with barrage count B > 0 and repeat spacing d
\* (0.15 s when none is configured) leaves exactly B schedule entries for
\* its instance, the k-th at t + k d with repeat index k, the cast's seal
\* count and angle list, and a cast id used by no emission, no live
\* projectile, no instance and no other entry; with B = 0 it leaves none.
C9_RepeatsScheduled ==
  [][ \A inst \in (DOMAIN castLedger') \ (DOMAIN castLedger) :
        LET cast == castLedger'[inst]
            main == cast.main
            d == IF cast.timeBetweenBarrageRepeats # 0
                   THEN cast.timeBetweenBarrageRepeats
                   ELSE (15 * UnitsPerSecond) \div 100
            mine == entriesOf(barrageCastSchedule', inst)
        IN /\ Len(mine) = cast.barrageCount
           /\ \A k \in 1..Len(mine) :
                 /\ mine[k].time = cast.time + k * d
                 /\ mine[k].barrageRepeatIndex = k
                 /\ mine[k].sealCount = main.sealCount
                 /\ mine[k].angles =
                      [j \in 1..Len(main.spawned) |-> main.spawned[j].angle]
                 /\ mine[k].castId \notin
                      usedCastIds(emitLog', projectiles', castLedger')
           /\ \A a, b \in 1..Len(barrageCastSchedule') :
                 a # b => barrageCastSchedule'[a].castId
                            # barrageCastSchedule'[b].castId ]_vars

\* a cast with two repeats and no configured spacing, both still scheduled
C9_Witness ==
  \E inst \in DOMAIN castLedger :
     /\ castLedger[inst].barrageCount = 2
     /\ castLedger[inst].timeBetweenBarrageRepeats = 0
     /\ Len(entriesOf(barrageCastSchedule, inst)) = 2

\* C10: each repeat emits the same number of projectiles with the same
\* angles and the same salvo grouping as the main cast of its instance,
\* even when the configuration changed in between.
C10_RepeatMatchesMainCast ==
  \A n \in 1..Len(emitLog) :
     LET e == emitLog[n]
     IN (e.barrageRepeatIndex > 0 /\ e.instanceId \in DOMAIN castLedger) =>
          LET main == castLedger[e.instanceId].main
          IN /\ Len(e.spawned) = Len(main.spawned)
             /\ \A k \in 1..Len(e.spawned) :
                   k <= Len(main.spawned) =>
                     /\ e.spawned[k].angle = main.spawned[k].angle
                     /\ e.spawned[k].salvoGroup = main.spawned[k].salvoGroup


(***************************************************************************)
(* Properties of the behaviour resolver (SpecResolver)                     *)
(***************************************************************************)
firstApplicable(p) ==
  IF ~p.hasSplit /\ p.splitCount > 0 THEN "split"
  ELSE IF p.pierceRemaining > 0 THEN "pierce"
  ELSE IF p.forkRemaining > 0 THEN "fork"
  ELSE IF p.chainRemaining > 0 THEN "chain"
  ELSE "absorb"

budgetsOf(p) ==
  <<p.pierceRemaining, p.forkRemaining, p.chainRemaining, p.splitCount>>

\* C3: every granted hit applies exactly one behaviour, the first
\* applicable of split (not yet split, split count > 0), pierce, fork,
\* chain, absorb, with that behaviour's effect alone: split and fork spawn
\* children and remove the projectile, pierce and chain spend one of their
\* own budget and keep it, absorb removes it.
C3_OneBehaviourByPriority ==
  \A k \in 1..Len(hitLog) :
     LET e == hitLog[k]
         b == firstApplicable(e.proj)
         spawnedChildren == e.liveAfter - e.liveBefore
     IN e.granted =>
          /\ e.applied = <<b>>
          /\ b = "split" =>
               /\ e.result = "remove"
               /\ spawnedChildren = e.proj.splitCount
               /\ budgetsOf(e.projAfter) = budgetsOf(e.proj)
          /\ b = "pierce" =>
               /\ e.result = "keep"
               /\ spawnedChildren = 0
               /\ e.projAfter =
                    [e.proj EXCEPT !.pierceRemaining = @ - 1]
          /\ b = "fork" =>
               /\ e.result = "remove"
               /\ spawnedChildren \in {2, 3}
               /\ e.projAfter = e.proj
          /\ b = "chain" =>
               /\ e.result = "keep"
               /\ spawnedChildren = 0
               /\ e.projAfter = [e.proj EXCEPT !.chainRemaining = @ - 1]
          /\ b = "absorb" =>
               /\ e.result = "remove"
               /\ spawnedChildren = 0
               /\ e.projAfter = e.proj

\* a hit on a projectile with more than one behaviour applicable, and a
\* hit on a spawned child
C3_Witness ==
  \E k \in 1..Len(hitLog) :
     /\ hitLog[k].granted
     /\ hitLog[k].proj.spawnTime > 0
     /\ hitLog[k].proj.pierceRemaining = 0
     /\ hitLog[k].proj.forkRemaining > 0
     /\ hitLog[k].proj.chainRemaining > 0
     /\ hitLog[k].applied = <<"fork">>

(***************************************************************************)
(* Properties of the barrage repeats and the seals (Spec)                  *)
(***************************************************************************)
\* the number of projectiles the emissions of log spawned for instance inst
RECURSIVE spawnedFor(_, _)
spawnedFor(log, inst) ==
  IF log = <<>> THEN 0
  ELSE (IF Head(log).instanceId = inst THEN Len(Head(log).spawned) ELSE 0)
         + spawnedFor(Tail(log), inst)

\* C11: a scheduled barrage repeat fires exactly once, in the first physics
\* tick with the simulation running whose time is >= its scheduled time and
\* never earlier, and is then removed from the schedule; firing adds its
\* projectile count to the running total of its owning instance.
C11_RepeatFiresOnceWhenDue ==
  [][ /\ \A k \in 1..Len(emitLog') :
           emitLog'[k].barrageRepeatIndex > 0 =>
             LET e == emitLog'[k] IN
             \* fired by a physics tick, with the simulation running
             /\ accum' = accum - fixedDt
             /\ running
             \* it was scheduled, and its time has come
             /\ \E i \in 1..Len(barrageCastSchedule) :
                  /\ barrageCastSchedule[i].castId = e.castId
                  /\ barrageCastSchedule[i].instanceId = e.instanceId
                  /\ barrageCastSchedule[i].barrageRepeatIndex
                       = e.barrageRepeatIndex
                  /\ barrageCastSchedule[i].time <= lastTime
             \* once, and removed
             /\ \A j \in 1..Len(emitLog') :
                  j # k => emitLog'[j].castId # e.castId
             /\ \A j \in 1..Len(barrageCastSchedule') :
                  barrageCastSchedule'[j].castId # e.castId
             \* its projectiles are added to the total of its instance
             /\ e.instanceId \in DOMAIN completedCastInstances
             /\ e.instanceId \in DOMAIN completedCastInstances'
             /\ completedCastInstances'[e.instanceId].projCount
                  = completedCastInstances[e.instanceId].projCount
                      + spawnedFor(emitLog', e.instanceId)
             /\ Len(e.spawned) > 0
      \* no entry that is due survives a tick with the simulation running
      /\ (accum' = accum - fixedDt /\ running) =>
           \A j \in 1..Len(barrageCastSchedule') :
             barrageCastSchedule'[j].time > lastTime
      \* the schedule never holds one cast id twice
      /\ \A i, j \in 1..Len(barrageCastSchedule') :
           i # j => barrageCastSchedule'[i].castId
                      # barrageCastSchedule'[j].castId
    ]_vars

\* the second repeat of a cast has fired, after the first
C11_Witness ==
  /\ running
  /\ \E k \in 1..Len(emitLog) :
       /\ emitLog[k].barrageRepeatIndex = 2
       /\ emitLog[k].instanceId \in DOMAIN completedCastInstances
       /\ completedCastInstances[emitLog[k].instanceId].projCount
            = 3 * Len(emitLog[k].spawned)

(***************************************************************************)
(* Properties of the seal counter (SpecSeals)                              *)
(***************************************************************************)
\* C12: in every reachable state 0 <= currentSeals <= config.maxSeals,
\* also after Start, Stop, Reset and after a configuration change that
\* alters maxSeals while seals are held.
C12_SealsWithinMax ==
  /\ 0 <= currentSeals
  /\ currentSeals <= config.maxSeals

\* C13: every cast emitted while the simulation is running fires with at
\* least the configured seal threshold of seals held (a threshold of 0
\* counts as 1); no cast is emitted with fewer seals than the threshold.
C13_CastsMeetThreshold ==
  \A k \in 1..Len(emitLog) :
    (emitLog[k].barrageRepeatIndex = 0 /\ running) =>
      emitLog[k].sealCount >= sealThreshold(config)

\* a main cast (repeat index 0) is among the emissions of log
castEmitted(log) ==
  \E k \in 1..Len(log) : log[k].barrageRepeatIndex = 0

\* C14: while the simulation is running, whenever the seal count has reached
\* maxSeals a cast is emitted no later than the next physics tick, so the
\* seal count never stays at the maximum, for every configured seal
\* threshold and positive seal-gain frequency.  Stated for a tick that
\* starts with the seals already at a positive maximum: that tick is the
\* next tick at the latest, and it emits a cast.
C14_CastWhenSealsAtMax ==
  [][ ( /\ accum' = accum - fixedDt
        /\ running
        /\ config.maxSeals > 0
        /\ config.baseSealGainFrequency > 0
        /\ currentSeals = config.maxSeals )
      => castEmitted(emitLog') ]_vars

\* the salvo groups above 0 among the projectiles of emission e
sealGroupsOf(e) ==
  {e.spawned[k].salvoGroup : k \in 1..Len(e.spawned)} \ {0}

\* the seals held when the action about to be taken calls emitCast: a tick
\* calls it after the accrual, Start after filling the seals to maxSeals
sealsHeldAtCast ==
  IF accum' = accum - fixedDt
    THEN schedulerBeforeCast(Sim, fixedDt).currentSeals
    ELSE config.maxSeals

\* C15: every cast consumes all seals: immediately after emitCast the seal
\* count is 0, and the number of seal salvo groups of that cast equals the
\* seal count held just before it.
C15_CastConsumesAllSeals ==
  [][ \A k \in 1..Len(emitLog') :
        emitLog'[k].barrageRepeatIndex = 0 =>
          /\ currentSeals' = 0
          /\ Cardinality(sealGroupsOf(emitLog'[k])) = sealsHeldAtCast
          /\ sealGroupsOf(emitLog'[k]) = 1..sealsHeldAtCast
    ]_vars

\* a cast fired by a tick of the scheduler has consumed two seals
C15_Witness ==
  /\ running
  /\ castAccumulator > 0
  /\ currentSeals = 0
  /\ \E k \in 1..Len(emitLog) :
       /\ emitLog[k].barrageRepeatIndex = 0
       /\ Cardinality(sealGroupsOf(emitLog[k])) = 2

\* C16: the number of projectiles fired by one cast emission equals the
\* configured base projectiles (the Base Projectiles input plus the
\* whirlwind stages) plus 2 x the number of seals consumed, for every value
\* of the Base Projectiles input.
C16_EmissionCountsBaseInput ==
  \A k \in 1..Len(emitLog) :
    Len(emitLog[k].spawned)
      = config.projectileCount + config.whirlwindStages
          + projectilesPerSeal * emitLog[k].sealCount

\* calculateExpectedProjectileCount(config, sealCount)
calculateExpectedProjectileCount(cfg, sealCount) ==
  (1 + cfg.whirlwindStages + 2 * sealCount) * (1 + cfg.barrageCount)

\* every cast made so far was made under the configuration now in force;
\* a configuration input stops the simulation and only Start, which casts,
\* resumes it, so no tick has run under another configuration either
configurationUnchanged ==
  \A i \in DOMAIN castLedger : castLedger[i].config = config

\* C17: the projectile count recorded for every completed full cast
\* (projPerCastHistory) equals the displayed Expected Total Projectiles,
\* (1 + W + 2 S)(1 + B) with S = salvoSealCount, for every cast of a run
\* with unchanged configuration, the cast fired by Start included.
C17_HistoryMatchesDisplayed ==
  configurationUnchanged =>
    \A k \in 1..Len(projPerCastHistory) :
      projPerCastHistory[k]
        = calculateExpectedProjectileCount(config, config.salvoSealCount)

(***************************************************************************)
(* Properties with caster and target co-located (SpecOverlap)              *)
(***************************************************************************)
\* the calls of tryApplyHit in log made for projectiles of instance inst
\* that had not moved since they were constructed
firstTickCalls(log, inst) ==
  {k \in 1..Len(log) : log[k].proj.instanceId = inst /\ log[k].proj.atCaster}

grantedIn(log, calls) == {k \in calls : log[k].granted}

piercesOnly(p) ==
  /\ p.splitCount = 0
  /\ p.forkRemaining = 0
  /\ p.chainRemaining = 0

\* C19: a projectile with pierceRemaining = n >= 0 and no split, fork or
\* chain budget survives its first n granted hits, each decrementing
\* pierceRemaining by exactly 1, and is removed (absorbed) on its (n+1)-th
\* granted hit.
C19_PierceThenAbsorb ==
  \* every granted hit on such a projectile
  /\ \A k \in 1..Len(hitLog) :
       (hitLog[k].granted /\ piercesOnly(hitLog[k].proj)) =>
          IF hitLog[k].proj.pierceRemaining > 0
            THEN /\ hitLog[k].result = "keep"
                 /\ hitLog[k].projAfter.pierceRemaining
                      = hitLog[k].proj.pierceRemaining - 1
                 /\ hitLog[k].liveAfter = hitLog[k].liveBefore
            ELSE /\ hitLog[k].result = "remove"
                 /\ hitLog[k].liveAfter = hitLog[k].liveBefore
  \* the one projectile of a cast constructed with pierceCount = n and no
  \* other budget, after h granted hits
  /\ ( /\ nextCastId > 1
       /\ config.splitCount = 0
       /\ config.forkTimes = 0
       /\ config.chainCount = 0 ) =>
        /\ Len(grantedHits) <= config.pierceCount + 1
        /\ Len(grantedHits) <= config.pierceCount =>
             /\ Len(projectiles) = 1
             /\ projectiles[1].pierceRemaining
                  = config.pierceCount - Len(grantedHits)
        /\ Len(grantedHits) = config.pierceCount + 1 =>
             projectiles = <<>>

\* a projectile constructed with one pierce has been absorbed by its second
\* granted hit
C19_Witness ==
  /\ config.pierceCount = 1
  /\ config.splitCount = 0
  /\ config.forkTimes = 0
  /\ config.chainCount = 0
  /\ Len(grantedHits) = 2
  /\ projectiles = <<>>
  /\ \E k \in 1..Len(hitLog) :
       /\ hitLog[k].granted
       /\ hitLog[k].proj.pierceRemaining = 0
       /\ hitLog[k].result = "remove"

(***************************************************************************)
(* Properties of instance completion (Spec)                                *)
(***************************************************************************)
\* C20: in every reachable state, a cast instance whose completion flag is
\* set has no live projectile carrying its instance id, at the moment it
\* was flagged and at every later tick.
C20_CompletedInstanceHasNoProjectile ==
  \A inst \in DOMAIN completedCastInstances :
    completedCastInstances[inst].completed =>
      ~hasProjectilesFromInstance(Sim, inst)

(***************************************************************************)
(* Properties of the per-cast histories (SpecHistory)                      *)
(***************************************************************************)
\* the instances the step about to be taken flags as completed
newlyCompleted ==
  {i \in DOMAIN completedCastInstances' :
     /\ completedCastInstances'[i].completed
     /\ i \in DOMAIN completedCastInstances
          => ~completedCastInstances[i].completed}

\* a set of instance ids in the order the Map holds them
RECURSIVE inMapOrder(_)
inMapOrder(ids) ==
  IF ids = {} THEN <<>>
  ELSE LET id == CHOOSE x \in ids : \A y \in ids : x <= y
       IN <<id>> \o inMapOrder(ids \ {id})

lastEntries(seq, n) == SubSeq(seq, Max(1, Len(seq) - n + 1), Len(seq))

\* C21: the per-cast hit history and the per-cast projectile-count history
\* never hold more than 10 entries and always hold, as index-aligned pairs,
\* the (up to) 10 most recently completed instances in completion order;
\* the oldest pair is dropped first.
C21_HistoriesHoldLastTenPairs ==
  [][ LET done == inMapOrder(newlyCompleted)
          hits == [k \in 1..Len(done) |->
                     completedCastInstances'[done[k]].hits]
          counts == [k \in 1..Len(done) |->
                       completedCastInstances'[done[k]].projCount]
      IN /\ Len(castHitHistory') <= historyLimit
         /\ Len(projPerCastHistory') = Len(castHitHistory')
         /\ IF completedCastInstances' = <<>> /\ ~running'
                 /\ projectiles' = <<>> /\ nextCastId' = nextCastId + 1
              THEN castHitHistory' = <<>> /\ projPerCastHistory' = <<>>
              ELSE /\ castHitHistory'
                        = lastEntries(castHitHistory \o hits, historyLimit)
                   /\ projPerCastHistory'
                        = lastEntries(projPerCastHistory \o counts,
                                      historyLimit)
    ]_vars

\* eleven instances have completed since the last Reset: the pair of the
\* first one, the cast fired by Start, has been dropped
C21_Witness ==
  /\ Len(castHitHistory) = historyLimit
  /\ Cardinality({i \in DOMAIN completedCastInstances :
                    completedCastInstances[i].completed}) = historyLimit + 1
  /\ \E i \in DOMAIN completedCastInstances :
       /\ completedCastInstances[i].completed
       /\ completedCastInstances[i].projCount # projPerCastHistory[1]

(***************************************************************************)
(* Properties of the Stop and Reset buttons (SpecControl)                  *)
(***************************************************************************)
\* the step about to be taken is a click on Stop: an event that leaves the
\* simulation not running and is not a Reset
stopPressed ==
  uiEvents' = uiEvents + 1 /\ ~running' /\ nextCastId' = nextCastId

\* the step about to be taken is a physics tick of a stopped simulation
stoppedTick == accum' = accum - fixedDt /\ ~running

\* what a stopped tick does: no seal, no cast, no repeat; the projectiles
\* past their duration go and the others stay, each granted hit is counted
stoppedTickEffect ==
  /\ UNCHANGED <<running, currentSeals, lastSealAccumTime, castAccumulator,
                 barrageCastSchedule, nextCastId, currentInstanceId,
                 castLedger, config>>
  /\ emitLog' = <<>>
  /\ Len(projectiles')
       = Cardinality({i \in 1..Len(projectiles) :
                        ~isExpired(projectiles[i], lastTime)})
  /\ hitsTotal'
       = hitsTotal + Cardinality({k \in 1..Len(hitLog') : hitLog'[k].granted})
  /\ \A k \in 1..Len(hitLog') : ~isExpired(hitLog'[k].proj, lastTime)

\* C22 as stated: pressing Stop changes nothing but the running flag
\* (projectile list, cooldown ledger, hit and damage counters, seal count
\* and pending repeat schedule are unchanged), and while not running the
\* step loop accrues no seal and emits no cast or barrage repeat, while
\* in-flight projectiles keep moving, registering hits and expiring.
C22_StopChangesOnlyRunning ==
  [][ /\ stopPressed =>
           UNCHANGED <<nextCastId, lastTime, accum, castAccumulator,
                       currentSeals, lastSealAccumTime, barrageCastSchedule,
                       config, projectiles, hitsTotal, totalDamage,
                       hitTimestamps, castTargetLocks, currentInstanceId,
                       currentCastHits, castHitHistory, projPerCastHistory,
                       completedCastInstances>>
      /\ stoppedTick => stoppedTickEffect ]_vars

\* C22, amended: pressing Stop clears the running flag, sets the cast
\* accumulator to zero and changes nothing else (projectile list, cooldown
\* ledger, hit and damage counters, seal count, seal timer and pending repeat
\* schedule are unchanged), and while not running the step loop accrues no
\* seal and emits no cast or barrage repeat, while in-flight projectiles
\* keep registering hits and expiring.
C22_StopClearsRunningAndCastAccumulator ==
  [][ /\ stopPressed =>
           /\ castAccumulator' = 0
           /\ UNCHANGED <<nextCastId, lastTime, accum,
                          currentSeals, lastSealAccumTime,
                          barrageCastSchedule, config, projectiles,
                          hitsTotal, totalDamage, hitTimestamps,
                          castTargetLocks, currentInstanceId,
                          currentCastHits, castHitHistory,
                          projPerCastHistory, completedCastInstances>>
      /\ stoppedTick => stoppedTickEffect ]_vars

\* stopped with a repeat that is due and still pending, the projectiles of
\* its instance gone although they were alive when Stop was pressed, and a
\* hit granted to another instance in the last tick
C22_Witness ==
  /\ ~running
  /\ \E k \in 1..Len(barrageCastSchedule) :
       /\ repeatDue(lastTime, barrageCastSchedule[k])
       /\ ~hasProjectilesFromInstance(Sim, barrageCastSchedule[k].instanceId)
  /\ \E k \in 1..Len(hitLog) : hitLog[k].granted

\* the cast ids taken by the casts of ledger and by their barrage repeats
castIdsOf(ledger) ==
  DOMAIN ledger
    \cup UNION { { ledger[i].firstRepeatCastId + k :
                     k \in 0..(ledger[i].barrageCount - 1) } :
                 i \in DOMAIN ledger }

\* reset() takes one cast id without casting: the ids below next that no
\* cast holds are those of the Resets so far
resetIds(next, ledger) == (1..(next - 1)) \ castIdsOf(ledger)

\* the instances cast before the latest Reset
castBeforeReset(next, ledger) ==
  {i \in DOMAIN ledger : \E k \in resetIds(next, ledger) : i < k}

\* the step about to be taken is a click on Reset
resetPressed ==
  uiEvents' = uiEvents + 1 /\ ~running' /\ nextCastId' # nextCastId

\* C23: after Reset the simulation is not running and the projectile list,
\* pending barrage schedule, cooldown ledger, hit and damage counters,
\* hit-timestamp window, seal count, instance tracking map and both per-cast
\* histories are empty or zero; nothing scheduled or spawned before the
\* Reset spawns a projectile or records a hit afterwards.
C23_ResetClearsAndCancels ==
  [][ /\ resetPressed =>
           /\ ~running'
           /\ projectiles' = <<>>
           /\ barrageCastSchedule' = <<>>
           /\ castTargetLocks' = <<>>
           /\ hitsTotal' = 0
           /\ totalDamage' = 0
           /\ hitTimestamps' = <<>>
           /\ currentSeals' = 0
           /\ completedCastInstances' = <<>>
           /\ castHitHistory' = <<>>
           /\ projPerCastHistory' = <<>>
      /\ \A i \in castBeforeReset(nextCastId', castLedger') :
           /\ \A k \in 1..Len(emitLog') : emitLog'[k].instanceId # i
           /\ \A k \in 1..Len(hitLog') : hitLog'[k].proj.instanceId # i
           /\ \A k \in 1..Len(projectiles') : projectiles'[k].instanceId # i
           /\ \A k \in 1..Len(barrageCastSchedule') :
                barrageCastSchedule'[k].instanceId # i
    ]_vars

\* Reset was pressed while the projectiles of instance i were in flight and
\* its repeat was pending (instance j was cast after the Reset and before
\* they would have expired); the simulation is running at a time when the
\* repeat of i would have fired
C23_Witness ==
  /\ running
  /\ \E i \in castBeforeReset(nextCastId, castLedger) :
       \E j \in DOMAIN castLedger \ castBeforeReset(nextCastId, castLedger) :
         /\ castLedger[i].barrageCount > 0
         /\ castLedger[j].time < castLedger[i].time + castLedger[i].config.duration
         /\ repeatDue(lastTime,
                      [time |-> castLedger[i].time
                                  + castLedger[i].timeBetweenBarrageRepeats])

(***************************************************************************)
(* Properties of projectile expiry                                         *)
(***************************************************************************)
\* the live projectiles of the main cast of instance inst
liveOfMainCast(projs, inst) ==
  {k \in 1..Len(projs) :
     projs[k].instanceId = inst /\ projs[k].barrageRepeatIndex = 0}

\* C24: projectile expiry is evaluated on the tick's logical clock: a
\* projectile with duration D stays alive for the same amount of simulated
\* time (the same number of fixed physics ticks) however the host frames
\* are spaced in wall-clock time, including after a long frame gap that the
\* loop clamps to 0.05 s.  Stated for the projectiles of a main cast that no
\* Reset has cleared, where nothing is in contact with the boss: while the
\* simulated time since the cast is no more than D, all of them are alive.
C24_ExpiryOnLogicalClock ==
  \A inst \in DOMAIN castLedger \ castBeforeReset(nextCastId, castLedger) :
    LET cast == castLedger[inst]
    IN ( /\ cast.config.duration >= 0
         /\ simulated - cast.simulated <= cast.config.duration )
       => Cardinality(liveOfMainCast(projectiles, inst)) = Len(cast.main.spawned)


\* C25: a projectile with non-negative duration whose age equals its
\* duration exactly is treated as expired and dropped by the step loop in
\* that tick: no projectile that a tick leaves alive has, at the tick's
\* time, an age equal to its duration.
C25_ExpiredAtExactDuration ==
  [][ accum' = accum - fixedDt =>
        \A k \in 1..Len(projectiles') :
          ~( /\ projectiles'[k].duration >= 0
             /\ age(projectiles'[k], lastTime) = projectiles'[k].duration )
    ]_vars


C29_SweptCircleHitT ==
  outcome.fn = "sweptCircleHitT" =>
    LET t == outcome.value
        mx == probe.px - probe.cx
        my == probe.py - probe.cy
        a == probe.dx * probe.dx + probe.dy * probe.dy
        b == 2 * (probe.dx * mx + probe.dy * my)
        c0 == mx * mx + my * my - probe.R * probe.R
        comesWithin ==
          \/ c0 <= 0
          \/ a + b + c0 <= 0
          \/ a > 0 /\ 0 <= 0 - b /\ 0 - b <= 2 * a /\ b * b >= 4 * a * c0
    IN /\ c0 <= 0 => t = Time(0, 0, 0, 1)
       /\ (a = 0 /\ c0 > 0) => t.none
       /\ t.none <=> ~comesWithin
       /\ (c0 > 0 /\ ~t.none) =>
            /\ inUnitInterval(t)
            /\ a * (t.num * t.num + t.sq) + b * t.num * t.den
                 + c0 * t.den * t.den = 0
            /\ (2 * a * t.num + b * t.den) * t.sgn = 0 \/ t.sq = 0
            /\ \A k \in 0..GeoGrid :
                 timeAfter(t, k, GeoGrid) =>
                   a * k * k + b * k * GeoGrid + c0 * GeoGrid * GeoGrid > 0

\* the path starts outside and enters the circle strictly inside the
\* sub-step, at a time that is not rational
C29_Witness ==
  /\ outcome.fn = "sweptCircleHitT"
  /\ ~outcome.value.none
  /\ timeAfter(outcome.value, 0, 1)
  /\ timeBefore(outcome.value, 1, 1)
  /\ outcome.value.sq \in {2, 3, 5, 6, 7, 8} \cup (10..15)


\* the square of the speed after Projectile.reflect with normal n,
\* multiplied by the square of n.len2, for a normal with integer W
reflectedSpeed2(vx, vy, n) ==
  LET after == reflect(vx, vy, n)
  IN after.x[1] * after.x[1] + after.y[1] * after.y[1]

\* Projectile.reflect with normal n leaves the speed of (vx, vy) unchanged:
\* n is a number (not 0 / 0), and since
\* |v - 2 (v.n) n|^2 - |v|^2 = 4 (v.n)^2 (|n|^2 - 1), either v.n = 0 or
\* |n| = 1, that is v.W = 0 or |W|^2 = len2
speedPreserved(vx, vy, n) ==
  LET vdotw == <<vx * n.ax + vy * n.ay, vx * n.bx + vy * n.by>>
      w2 == << n.ax * n.ax + n.ay * n.ay + n.q * (n.bx * n.bx + n.by * n.by),
               2 * (n.ax * n.bx + n.ay * n.by) >>
  IN /\ n.len2 # <<0, 0>>
     /\ \/ signRoot(vdotw[1], vdotw[2], n.q) = 0
        \/ w2 = n.len2

\* C28: every terrain reflection preserves the projectile's speed: for
\* every normal an arena reports (the circle's radial normal, the square's
\* side and corner normals, the swept time-of-impact normals of wall
\* segments) and every velocity, the speed after Projectile.reflect equals
\* the speed before.  For the two collideCircle arenas the reflected
\* velocity is computed and its length compared as well.
C28_ReflectionPreservesSpeed ==
  ( /\ outcome.fn \in {"CircleArena.collideCircle",
                       "SquareArena.collideCircle", "sweptCircleSegmentTOI"}
    /\ outcome.value.hit ) =>
    \A vx \in Steps, vy \in Steps :
      /\ speedPreserved(vx, vy, outcome.value.n)
      /\ outcome.fn # "sweptCircleSegmentTOI" =>
           reflectedSpeed2(vx, vy, outcome.value.n)
             = outcome.value.n.len2[1] * outcome.value.n.len2[1]
                 * (vx * vx + vy * vy)


\* the side of the line through wall segment seg on which (x, y) lies, as
\* a sign, and the place of (x, y) along the segment, between 0 and its
\* squared length
sideOf(x, y, seg) ==
  sign((0 - (seg[4] - seg[2])) * (x - seg[1])
         + (seg[3] - seg[1]) * (y - seg[2]))

along(x, y, seg) ==
  (seg[3] - seg[1]) * (x - seg[1]) + (seg[4] - seg[2]) * (y - seg[2])

length2(seg) ==
  (seg[3] - seg[1]) * (seg[3] - seg[1])
    + (seg[4] - seg[2]) * (seg[4] - seg[2])

\* the straight path from (x, y) to (x + Dx, y + Dy) starts on one side of
\* seg, ends on the other and crosses the segment between its endpoints
pathCrosses(x, y, Dx, Dy, seg) ==
  LET w0 == (0 - (seg[4] - seg[2])) * (x - seg[1])
              + (seg[3] - seg[1]) * (y - seg[2])
      w1 == (0 - (seg[4] - seg[2])) * (x + Dx - seg[1])
              + (seg[3] - seg[1]) * (y + Dy - seg[2])
      at == along(x, y, seg) * (abs(w0) + abs(w1))
              + ((seg[3] - seg[1]) * Dx + (seg[4] - seg[2]) * Dy) * abs(w0)
  IN /\ sign(w0) # 0
     /\ sign(w1) = 0 - sign(w0)
     /\ 0 < at
     /\ at < length2(seg) * (abs(w0) + abs(w1))

\* (fx, fy) lies behind seg as seen from (x, y)
farSide(fx, fy, x, y, seg) ==
  /\ sideOf(fx, fy, seg) = 0 - sideOf(x, y, seg)
  /\ 0 <= along(fx, fy, seg)
  /\ along(fx, fy, seg) <= length2(seg)

\* C27: in the T-corridor a projectile whose displacement in a tick takes
\* its path across a wall segment is reflected in that tick: after the tick
\* it has not passed to the far side of a wall segment it was heading into.
C27_NoTunnelling ==
  (outcome.fn = "step" /\ outcome.value.exact) =>
    \A i \in 1..Len(TJunctionSegments(GeoCorridor)) :
      LET seg == TJunctionSegments(GeoCorridor)[i]
      IN pathCrosses(probe.x, probe.y, probe.Dx, probe.Dy, seg) =>
           ~farSide(outcome.value.x, outcome.value.y, probe.x, probe.y, seg)


(***************************************************************************)
(* Properties of reading the configuration (SpecConfig)                    *)
(***************************************************************************)
\* C30: a missing or non-numeric numeric configuration field never
\* propagates: every field read from the page is a finite number (a
\* default where the page had none), the seal interval a running tick
\* computes from the configuration is a finite number, and so is the total
\* damage after a granted hit.
C30_ConfigNeverPropagates ==
  /\ outcome.fn = "readConfigFromDOM" =>
       /\ isFinite(outcome.value.avgHit)
       /\ isFinite(outcome.value.baseSealGainFrequency)
       /\ isFinite(outcome.value.increasedSealGainFrequency)
  /\ outcome.fn \in {"step", "tryApplyHit"} => isFinite(outcome.value)


(***************************************************************************)
(* Properties of spawned children (SpecResolver)                           *)
(***************************************************************************)
\* the granted hits that spawned p: on p's hit-group key, at the time p was
\* constructed.  A cast's projectiles are constructed before any hit on
\* their key, so only split and fork children have one.
spawningHits(p) ==
  { n \in 1..Len(grantedHits) :
      /\ grantedHits[n].instanceId = p.instanceId
      /\ grantedHits[n].barrageRepeatIndex = p.barrageRepeatIndex
      /\ grantedHits[n].salvoGroup = p.salvoGroup
      /\ grantedHits[n].t = p.spawnTime }

\* C33: children spawned by split or fork carry the parent's instance id,
\* barrage-repeat index and salvo group, so they share the parent's
\* hit-group key, and no child registers a hit within 0.66 s of the granted
\* hit that spawned it.
C33_ChildrenShareHitGroup ==
  \A k \in 1..Len(hitLog) :
     LET e == hitLog[k]
     IN /\ \A c \in 1..Len(e.children) :
             /\ e.children[c].instanceId = e.proj.instanceId
             /\ e.children[c].barrageRepeatIndex = e.proj.barrageRepeatIndex
             /\ e.children[c].salvoGroup = e.proj.salvoGroup
             /\ keyOf(e.children[c]) = keyOf(e.proj)
        /\ ( /\ spawningHits(e.proj) # {}
             /\ e.now - e.proj.spawnTime < PER_CAST_TARGET_COOLDOWN )
             => ~e.granted

\* a split that spawned children of which one touched the boss in the same
\* tick and was denied
C33_Witness ==
  \E j \in 1..Len(hitLog), k \in 1..Len(hitLog) :
     /\ j < k
     /\ hitLog[j].granted
     /\ hitLog[j].applied = <<"split">>
     /\ Len(hitLog[j].children) > 1
     /\ \E c \in 1..Len(hitLog[j].children) :
          hitLog[j].children[c] = hitLog[k].proj
     /\ hitLog[k].now = hitLog[j].now
     /\ ~hitLog[k].granted


\* how many elements of the live list are the projectile q
liveCopies(q) ==
  Cardinality({ n \in 1..Len(projectiles) : projectiles[n] = q })

\* how many children pushed in the last tick are the projectile c
spawnedCopies(c) ==
  Cardinality({ kc \in (1..Len(hitLog)) \X (1..ResolverMaxSplit + 3) :
                  /\ kc[2] <= Len(hitLog[kc[1]].children)
                  /\ hitLog[kc[1]].children[kc[2]] = c })

\* a hit of c's own in the last tick took c out of the list
removedByOwnHit(c) ==
  \E j \in 1..Len(hitLog) :
     hitLog[j].proj = c /\ hitLog[j].result = "remove"

\* C35: a child pushed by split or fork while the step loop iterates the
\* projectile list is not lost: after the tick every such child that has
\* neither expired nor been removed by a hit of its own is in the live
\* list, and the parent it replaced is not.
C35_SpawnedChildrenSurviveTheTick ==
  \A k \in 1..Len(hitLog) :
     LET e == hitLog[k]
     IN Len(e.children) > 0 =>
          /\ \A c \in 1..Len(e.children) :
               ( /\ ~isExpired(e.children[c], e.now)
                 /\ ~removedByOwnHit(e.children[c]) )
               => liveCopies(move(e.children[c]))
                    >= spawnedCopies(e.children[c])
          /\ e.result = "remove"
          /\ liveCopies(e.proj) = 0
          /\ liveCopies(move(e.proj)) = 0
          /\ liveCopies(move(e.projAfter)) = 0

\* a tick in which a fork pushed three children, one of them touched the
\* boss in that tick, and all three are live after it
C35_Witness ==
  \E k \in 1..Len(hitLog) :
     /\ hitLog[k].applied = <<"fork">>
     /\ Len(hitLog[k].children) = 3
     /\ \E j \in 1..Len(hitLog) : j > k /\ hitLog[j].proj = hitLog[k].children[1]
     /\ \A c \in 1..3 : liveCopies(move(hitLog[k].children[c])) >= 1


(***************************************************************************)
(* SpecBurst: the cast trigger                                             *)
(***************************************************************************)
BurstNext ==
  \/ loopHead(BurstProfile)
  \/ loopStep(BurstProfile)
  \/ startBtnClick(BurstProfile)
  \/ stopBtnClick(BurstProfile)
  \/ resetBtnClick(BurstProfile)
  \/ configInput(BurstProfile)

SpecBurst == InitWith(BurstProfile.initConfigs) /\ [][BurstNext]_vars

\* the main casts (emitCast calls) among the emissions of the last action
mainCasts(log) ==
  { k \in 1..Len(log) : log[k].barrageRepeatIndex = 0 }

\* C36: the step loop emits at most one cast per physics tick, for every
\* configuration (a seal threshold below 0 included) and however long the
\* cast accumulator has been accumulating while waiting for seals.
C36_OneCastPerTick ==
  [][ simulated' # simulated => Cardinality(mainCasts(emitLog')) <= 1 ]_vars

\* a tick that cast after waiting for a seal: the accumulator still holds
\* more than twice the 0.01 s of a cast after it (a Start click leaves 0)
C36_Witness ==
  /\ running
  /\ Cardinality(mainCasts(emitLog)) = 1
  /\ castAccumulator >= 2 * castEpsilon
  /\ sealThreshold(config) > 0

\* a tick that cast with a seal threshold below 0
C36_NegativeThresholdCast ==
  /\ running
  /\ Cardinality(mainCasts(emitLog)) = 1
  /\ castAccumulator > 0
  /\ sealThreshold(config) < 0


\* C37: pressing Start while the simulation is already running emits no
\* additional cast and leaves the seal count and the cast accumulator
\* unchanged.  Of the handlers only Start leaves running set.
C37_StartIsIdempotentWhileRunning ==
  [][ (uiEvents' # uiEvents /\ running /\ running')
        => /\ emitLog' = <<>>
           /\ nextCastId' = nextCastId
           /\ currentSeals' = currentSeals
           /\ castAccumulator' = castAccumulator ]_vars


(***************************************************************************)
(* SpecUrl: throttledWriteURL.  urlUpdate holds __urlUpdate (lastAt, timer, *)
(* pending; null is 0), the window's timers, performance.now() and the     *)
(* address bar; a URL state is a number 1..UrlMaxState.                    *)
(***************************************************************************)
URL_UPDATE_MIN_INTERVAL_MS == UnitsPerSecond \div 2

\* a variant without the early return for a timer that is already pending
throttledWriteURL_NoGuard(u, state) ==
  LET u1 == [u EXCEPT !.pending = state, !.requested = state,
                      !.requests = @ + 1]
      elapsed == u1.now - u1.lastAt
      delay == Max(0, URL_UPDATE_MIN_INTERVAL_MS - elapsed)
  IN [u1 EXCEPT !.timers = @ \cup {[id |-> u1.nextTimer,
                                     due |-> u1.now + delay]},
                !.timer = u1.nextTimer,
                !.nextTimer = @ + 1]

\* throttledWriteURL(state), up to window.setTimeout
throttledWriteURL(u, state) ==
  LET u1 == [u EXCEPT !.pending = state, !.requested = state,
                      !.requests = @ + 1]
      elapsed == u1.now - u1.lastAt
      delay == Max(0, URL_UPDATE_MIN_INTERVAL_MS - elapsed)
  IN IF u1.timer # 0 THEN u1
     ELSE [u1 EXCEPT !.timers = @ \cup {[id |-> u1.nextTimer,
                                         due |-> u1.now + delay]},
                     !.timer = u1.nextTimer,
                     !.nextTimer = @ + 1]

\* writeURLParams(current); __urlUpdate.lastAt = performance.now()
writeURLParams(u, current) ==
  [u EXCEPT !.address = current, !.lastAt = u.now,
            !.writes = Append(@, [at |-> u.now, state |-> current])]

\* the callback passed to window.setTimeout
flush(u) ==
  LET u1 == [u EXCEPT !.timer = 0]
      current == u1.pending
  IN IF current = 0 THEN u1
     ELSE LET u2 == writeURLParams([u1 EXCEPT !.pending = 0], current)
          IN IF u2.pending # 0 THEN throttledWriteURL(u2, u2.pending)
             ELSE u2

UrlInit ==
  /\ Constructed({ControlPageConfig})
  /\ probe = NoCall
  /\ outcome = NoCall
  /\ page = NotLoaded
  /\ builder = NotLoaded
  /\ urlUpdate = [ loaded |-> TRUE, lastAt |-> 0, timer |-> 0, pending |-> 0,
                   timers |-> {}, nextTimer |-> 1, now |-> 0, address |-> 0,
                   writes |-> <<>>, requested |-> 0, requests |-> 0 ]

\* updateURL(sim), called from an input, change or drag handler
updateURL ==
  /\ urlUpdate.requests < UrlMaxRequests
  /\ urlUpdate.now + URL_UPDATE_MIN_INTERVAL_MS <= UrlMaxClock
  /\ \E state \in 1..UrlMaxState :
       urlUpdate' = throttledWriteURL(urlUpdate, state)
  /\ UNCHANGED <<simulation, page, builder>>

\* performance.now() advances by 0.2 s
timePasses ==
  /\ urlUpdate.now + 120 <= UrlMaxClock
  /\ urlUpdate' = [urlUpdate EXCEPT !.now = @ + 120]
  /\ UNCHANGED <<simulation, page, builder>>

\* the window runs a timer that is due
timerFires ==
  /\ \E tm \in urlUpdate.timers :
       /\ tm.due <= urlUpdate.now
       /\ urlUpdate' = flush([urlUpdate EXCEPT !.timers = @ \ {tm}])
  /\ UNCHANGED <<simulation, page, builder>>

UrlNext ==
  \/ updateURL
  \/ timePasses
  \/ timerFires

\* time passes, and the window runs every timer that is due
SpecUrl ==
  /\ UrlInit
  /\ [][UrlNext]_vars
  /\ WF_vars(timePasses)
  /\ WF_vars(timerFires)

\* C40: throttledWriteURL never has more than one timer pending, never
\* performs two URL writes less than 500 ms apart, and after any burst of
\* update requests eventually writes the most recently requested state.
C40_ThrottledWriteURL ==
  /\ [](Cardinality(urlUpdate.timers) <= 1)
  /\ [](\A i \in 1..Len(urlUpdate.writes), j \in 1..Len(urlUpdate.writes) :
          i < j => urlUpdate.writes[j].at - urlUpdate.writes[i].at
                     >= URL_UPDATE_MIN_INTERVAL_MS)
  /\ <>[](urlUpdate.address = urlUpdate.requested /\ urlUpdate.pending = 0)

\* two writes, the second of the last state of a burst of requests made
\* while a timer was pending
C40_Witness ==
  /\ Len(urlUpdate.writes) = 2
  /\ urlUpdate.requests > 3
  /\ urlUpdate.address = urlUpdate.requested
  /\ urlUpdate.writes[1].state # urlUpdate.writes[2].state
  /\ urlUpdate.writes[2].at - urlUpdate.writes[1].at
       = URL_UPDATE_MIN_INTERVAL_MS + 60


(***************************************************************************)
(* SpecLive: every cast instance completes                                 *)
(***************************************************************************)
\* a Start click early enough for its cast to complete within the clock
LiveStartClick ==
  /\ lastTime + LiveHorizon <= LiveMaxClock
  /\ startBtnClick(LiveProfile)

LiveFrame == loopHead(LiveProfile)

LiveStep == loopStep(LiveProfile)

LiveNext ==
  \/ LiveFrame
  \/ LiveStep
  \/ LiveStartClick
  \/ stopBtnClick(LiveProfile)
  \/ configInput(LiveProfile)

\* what an iteration of the while loop of loop(t) does to the accumulator
whileIteration == accum >= fixedDt /\ accum' = accum - fixedDt

\* requestAnimationFrame keeps calling loop(t), and the while loop of
\* loop(t) iterates as long as its condition holds
SpecLive ==
  /\ InitWith(LiveProfile.initConfigs)
  /\ [][LiveNext]_vars
  /\ WF_vars(LiveFrame)
  /\ WF_accum(whileIteration)

\* how often the instance was pushed to the per-cast histories
timesAppended(inst) ==
  Cardinality({ k \in 1..Len(completedOrder) : completedOrder[k] = inst })

\* marked completed and in the histories once
completedOnce(inst) ==
  /\ inst \in DOMAIN completedCastInstances
  /\ completedCastInstances[inst].completed
  /\ timesAppended(inst) = 1

\* C34: with a non-negative projectile duration and no Reset, every cast
\* instance is eventually marked completed and appended to the per-cast
\* history, and it is appended exactly once.  The casts of SpecLive are
\* finitely many, so from some point on every instance cast is completed.
C34_EveryInstanceCompletesOnce ==
  /\ [](\A inst \in 1..(LiveMaxCastId + 1) :
          /\ timesAppended(inst) <= 1
          /\ timesAppended(inst) = 1 => completedOnce(inst))
  /\ <>[](\A inst \in DOMAIN completedCastInstances : completedOnce(inst))

\* an instance completed while stopped, and another whose barrage repeat
\* kept it open after its main cast had expired, both appended once
C34_Witness ==
  /\ ~running
  /\ \E a \in DOMAIN completedCastInstances,
        b \in DOMAIN completedCastInstances :
       /\ a # b
       /\ completedCastInstances[a].completed
       /\ completedCastInstances[b].completed
       /\ timesAppended(a) = 1
       /\ timesAppended(b) = 1
       /\ completedCastInstances[a].projCount
            > completedCastInstances[b].projCount


\* the centre pos is farther from the boss than sqrt(pos.R2):
\* dx^2 (sqrt(R2) + 1/2)^2 / div2 + y^2 > R2, multiplied by 4 div2
outsideRim(pos) ==
  signRoot(4 * pos.dx * pos.dx * pos.R2 + pos.dx * pos.dx
             + 4 * pos.y * pos.y * pos.div2 - 4 * pos.R2 * pos.div2,
           4 * pos.dx * pos.dx, pos.R2) = 1

\* C32: after a granted hit resolved by pierce (or by chain) the
\* projectile's centre is farther from the target centre than target radius
\* + projectile radius, for every direction of approach.
C32_NudgedOutsideTheRim ==
  outcome.fn \in {"applyPierce", "applyChain"} => outsideRim(outcome.value)

\* a contact on the rim off both axes, which the nudge does clear
C32_RimContactCleared ==
  /\ outcome.fn = "applyPierce"
  /\ probe.x * probe.x + probe.y * probe.y = probe.R2
  /\ probe.x # 0
  /\ probe.y # 0
  /\ outsideRim(outcome.value)


(***************************************************************************)
(* SpecPage: bootstrap and resize.  page holds every Simulation constructed *)
(* so far (none is ever torn down), window.__sim as an index into them,    *)
(* the module's nextCastId and the Projectile objects, which a carry-over  *)
(* shares between simulations.  A frame is one tick of every frame loop; a *)
(* cast is one twister, which lives PageLifetime frames; the scheduler     *)
(* does not cast.                                                          *)
(***************************************************************************)
\* new Simulation(canvas): the fields, installUI() and requestAnimationFrame
newSimulation ==
  [ running |-> FALSE, projectiles |-> {}, listening |-> TRUE,
    looping |-> TRUE ]

\* resize(), from `if (window.__sim)` on
resize(pg) ==
  IF pg.sim = 0 THEN pg
  ELSE
    LET prev == pg.sims[pg.sim]
        sim == IF prev.running
                 THEN [newSimulation EXCEPT !.projectiles = {},
                                            !.running = TRUE]
                 ELSE [newSimulation EXCEPT
                         !.projectiles = prev.projectiles,
                         !.running = prev.running]
    IN [pg EXCEPT !.sims = Append(@, sim), !.sim = Len(pg.sims) + 1]

\* the startBtn click listener of simulation k: running = true; emitCast
RECURSIVE startListeners(_, _)
startListeners(pg, k) ==
  IF k > Len(pg.sims) THEN pg
  ELSE IF ~pg.sims[k].listening THEN startListeners(pg, k + 1)
  ELSE
    LET id == pg.nextCastId
    IN startListeners(
         [pg EXCEPT !.nextCastId = id + 1,
                    !.sims[k].running = TRUE,
                    !.sims[k].projectiles = @ \cup {id},
                    !.objects = [i \in DOMAIN @ \cup {id} |->
                                   IF i = id
                                     THEN [born |-> pg.frames, moves |-> 0]
                                     ELSE @[i]],
                    !.castsOfClick = @ + 1],
         k + 1)

\* the stopBtn click listener of every simulation
stopListeners(pg) ==
  [pg EXCEPT !.sims = [k \in DOMAIN @ |->
                         IF @[k].listening THEN [@[k] EXCEPT !.running = FALSE]
                         ELSE @[k]]]

\* loop(t) of simulation k: one step over its projectile list
RECURSIVE frameLoops(_, _)
frameLoops(pg, k) ==
  IF k > Len(pg.sims) THEN pg
  ELSE IF ~pg.sims[k].looping THEN frameLoops(pg, k + 1)
  ELSE
    LET live == { id \in pg.sims[k].projectiles :
                    pg.frames - pg.objects[id].born <= PageLifetime }
    IN frameLoops(
         [pg EXCEPT !.sims[k].projectiles = live,
                    !.objects = [i \in DOMAIN @ |->
                                   IF i \in live
                                     THEN [@[i] EXCEPT !.moves = @ + 1]
                                     ELSE @[i]],
                    !.advanced = [i \in DOMAIN pg.objects |->
                                    IF i \in live THEN @[i] + 1 ELSE @[i]]],
         k + 1)

PageInit ==
  /\ Constructed({ControlPageConfig})
  /\ probe = NoCall
  /\ outcome = NoCall
  /\ urlUpdate = NotLoaded
  /\ builder = NotLoaded
  /\ page = [ loaded |-> TRUE, ready |-> FALSE, sims |-> <<>>, sim |-> 0,
              nextCastId |-> 1, objects |-> <<>>, frames |-> 0,
              castsOfClick |-> 0, advanced |-> <<>> ]

\* the observations describe the last action only
observed(pg) ==
  [pg EXCEPT !.castsOfClick = 0,
             !.advanced = [i \in DOMAIN pg.objects |-> 0]]

\* the DOMContentLoaded listener: window.__sim = new Simulation; resize()
DOMContentLoaded ==
  /\ ~page.ready
  /\ page' = resize([observed(page) EXCEPT !.ready = TRUE,
                                           !.sims = <<newSimulation>>,
                                           !.sim = 1])
  /\ UNCHANGED <<simulation, urlUpdate, builder>>

\* a resize event of the window
resizeEvent ==
  /\ page.ready
  /\ Len(page.sims) < PageMaxSims
  /\ page' = resize(observed(page))
  /\ UNCHANGED <<simulation, urlUpdate, builder>>

\* one click on Start
pageStartClick ==
  /\ page.ready
  /\ page.nextCastId + Len(page.sims) <= PageMaxCastId + 1
  /\ page' = startListeners(observed(page), 1)
  /\ UNCHANGED <<simulation, urlUpdate, builder>>

\* one click on Stop
pageStopClick ==
  /\ page.ready
  /\ \E k \in 1..Len(page.sims) : page.sims[k].running
  /\ page' = stopListeners(observed(page))
  /\ UNCHANGED <<simulation, urlUpdate, builder>>

\* one animation frame: every pending requestAnimationFrame callback runs
animationFrame ==
  /\ page.ready
  /\ page.frames < PageMaxFrames
  /\ page' = frameLoops([observed(page) EXCEPT !.frames = @ + 1], 1)
  /\ UNCHANGED <<simulation, urlUpdate, builder>>

PageNext ==
  \/ DOMContentLoaded
  \/ resizeEvent
  \/ pageStartClick
  \/ pageStopClick
  \/ animationFrame

SpecPage == PageInit /\ [][PageNext]_vars

\* the simulations whose frame loop or listeners act
actingSimulations ==
  { k \in 1..Len(page.sims) : page.sims[k].looping \/ page.sims[k].listening }

\* C38: at any time exactly one Simulation instance is live: after a
\* resize (the one of the bootstrap included) the previous instance's frame
\* loop and listeners no longer act, so one Start click emits one cast and
\* every projectile is advanced by exactly one step loop per tick.
C38_OneLiveSimulation ==
  page.ready =>
    /\ actingSimulations = {page.sim}
    /\ page.castsOfClick <= 1
    /\ \A id \in DOMAIN page.advanced : page.advanced[id] <= 1

\* one Start click emitted more than one cast
C38_ClickCastTwice == page.castsOfClick > 1

\* a projectile carried over by a resize while paused was advanced by two
\* step loops in one tick
C38_AdvancedTwice ==
  \E id \in DOMAIN page.advanced :
     /\ page.advanced[id] > 1
     /\ Cardinality(actingSimulations) > 2


(***************************************************************************)
(* SpecBuilder: the ArenaBuilder of arena-builder.js.  Positions are in    *)
(* pixels on a grid of one metre (UNITS_PER_METER * SCALE pixels); a click *)
(* on a further point is in the row or the column of the last point, so    *)
(* that the saved direction is a unit vector along an axis.  null is Null. *)
(***************************************************************************)
SCALE == 2
UNITS_PER_METER == 10
SNAP_DISTANCE == 25

Null == [null |-> TRUE]

\* canvas.width / 2, for a square canvas four metres wide
canvasCentre == 2 * (UNITS_PER_METER * SCALE)

\* the longest prefix of digits
RECURSIVE digitPrefix(_)
digitPrefix(text) ==
  IF text = <<>> \/ ~isDigit(text[1]) THEN <<>>
  ELSE <<text[1]>> \o digitPrefix(SubSeq(text, 2, Len(text)))

\* parseFloat(text), for texts of digits and letters
parseFloat(text) ==
  IF digitPrefix(text) = <<>> THEN NaN
  ELSE Float(decimal(digitPrefix(text)), 1)

\* what prompt() returns: null, or the text typed
Answers == {Null} \cup { [null |-> FALSE, text |-> txt] :
                           txt \in {<<>>, <<"0">>, <<"1">>, <<"a">>} }

\* a click on the last point has dist = 0 and saves no direction
directionTo(from, to) ==
  IF to = from THEN Null
  ELSE [null |-> FALSE, nx |-> sign(to[1] - from[1]),
        ny |-> sign(to[2] - from[2])]

\* Math.hypot(x - startPoint.x, y - startPoint.y) <= SNAP_DISTANCE
nearStart(b, at) ==
  (at[1] - b.startPoint.at[1]) * (at[1] - b.startPoint.at[1])
    + (at[2] - b.startPoint.at[2]) * (at[2] - b.startPoint.at[2])
    <= SNAP_DISTANCE * SNAP_DISTANCE

\* the callback handleCanvasClick passes to promptDistance
placePoint(b, lastPoint) ==
  IF ~b.pendingClickDirection.null /\ ~b.pendingDistanceUnits.null
    THEN [b EXCEPT
            !.points =
               Append(@, << lastPoint[1] + b.pendingClickDirection.nx
                              * (b.pendingDistanceUnits.units * SCALE),
                            lastPoint[2] + b.pendingClickDirection.ny
                              * (b.pendingDistanceUnits.units * SCALE) >>),
            !.pendingClickDirection = Null,
            !.pendingDistanceUnits = Null]
    ELSE b

\* promptDistance(isClosing, callback), with the answer given to prompt()
promptDistance(b, isClosing, answer, lastPoint) ==
  IF answer.null THEN [b EXCEPT !.pendingClickDirection = Null]
  ELSE
    LET dist == parseFloat(answer.text)
    IN IF dist.nan \/ dist.num <= 0
         THEN [b EXCEPT !.pendingClickDirection = Null]
       ELSE
         LET b1 == [b EXCEPT !.distances =
                               Append(@, dist.num * UNITS_PER_METER)]
         IN IF isClosing
              THEN [b1 EXCEPT !.locked = TRUE, !.drawing = FALSE,
                              !.pendingClickDirection = Null]
              ELSE placePoint(
                     [b1 EXCEPT !.pendingDistanceUnits =
                                   [null |-> FALSE,
                                    units |-> dist.num * UNITS_PER_METER]],
                     lastPoint)

\* with mirror on, a click within 20 pixels of the axis snaps onto it
snapToAxis(b, click) ==
  IF b.mirror /\ abs(click[1] - canvasCentre) < 20
    THEN <<canvasCentre, click[2]>>
    ELSE click

handleCanvasClick(b, click, answer) ==
  LET at == snapToAxis(b, click) IN
  IF b.locked THEN b
  ELSE IF Len(b.points) >= 3 /\ ~b.startPoint.null /\ nearStart(b, at)
    THEN promptDistance(b, TRUE, answer, Null)
  ELSE IF Len(b.points) = 0
    THEN [b EXCEPT !.startPoint = [null |-> FALSE, at |-> at],
                   !.points = <<at>>, !.drawing = TRUE]
  ELSE
    LET lastPoint == b.points[Len(b.points)]
        b1 == IF at # lastPoint
                THEN [b EXCEPT !.pendingClickDirection =
                                  directionTo(lastPoint, at)]
                ELSE b
    IN promptDistance(b1, FALSE, answer, lastPoint)

handleMiddleClick(b, answer) ==
  IF b.drawing /\ Len(b.points) >= 3
    THEN promptDistance(b, TRUE, answer, Null)
    ELSE b

handleRightClick(b) ==
  IF b.drawing THEN [b EXCEPT !.paused = ~@] ELSE b

builderReset(b) ==
  [b EXCEPT !.points = <<>>, !.distances = <<>>, !.locked = FALSE,
            !.drawing = FALSE, !.paused = FALSE,
            !.pendingDistanceUnits = Null, !.pendingClickDirection = Null,
            !.startPoint = Null, !.arenaName = <<>>, !.jsonOutput = Null]

\* for (i = 0; i < pointsToRemove && points.length > 1; i++) points.pop()
RECURSIVE popPoints(_, _)
popPoints(points, n) ==
  IF n = 0 \/ Len(points) <= 1 THEN points
  ELSE popPoints(SubSeq(points, 1, Len(points) - 1), n - 1)

undo(b) ==
  IF b.locked \/ Len(b.points) <= 1 THEN b
  ELSE
    LET pointsToRemove == IF b.mirror /\ Len(b.points) > 1 THEN 2 ELSE 1
    IN [b EXCEPT !.points = popPoints(@, pointsToRemove),
                 !.distances = IF Len(@) > 0
                                 THEN SubSeq(@, 1, Len(@) - 1) ELSE @]

\* a variant that asks for the closing distance whatever the point count
lock_AnyCount(b, answer) ==
  IF ~b.locked THEN promptDistance(b, TRUE, answer, Null) ELSE b

lock(b, answer) ==
  IF Len(b.points) >= 3 /\ ~b.locked
    THEN promptDistance(b, TRUE, answer, Null)
    ELSE b

\* pixels to world units, about the centre of the canvas
toWorld(pt, sgn) ==
  << sgn * ((pt[1] - canvasCentre) \div SCALE),
     (pt[2] - canvasCentre) \div SCALE >>

reversed(seq) == [k \in 1..Len(seq) |-> seq[Len(seq) + 1 - k]]

showExport(b) ==
  IF ~b.locked THEN b
  ELSE IF b.arenaName = <<>> THEN b
  ELSE
    LET arenaPoints == [k \in 1..Len(b.points) |-> toWorld(b.points[k], 1)]
        mirroredPoints ==
          [k \in 1..Len(b.points) |-> toWorld(b.points[k], 0 - 1)]
    IN [b EXCEPT !.jsonOutput =
          [ null |-> FALSE, name |-> b.arenaName, type |-> "polygon",
            points |-> IF b.mirror
                         THEN arenaPoints \o reversed(mirroredPoints)
                         ELSE arenaPoints,
            distances |-> b.distances ]]

\* new ArenaBuilder('arenaCanvas')
BuilderInit ==
  /\ Constructed({ControlPageConfig})
  /\ probe = NoCall
  /\ outcome = NoCall
  /\ urlUpdate = NotLoaded
  /\ page = NotLoaded
  /\ builder = [ loaded |-> TRUE, points |-> <<>>, distances |-> <<>>,
                 locked |-> FALSE, drawing |-> FALSE, paused |-> FALSE,
                 mirror |-> FALSE, pendingDistanceUnits |-> Null,
                 pendingClickDirection |-> Null, startPoint |-> Null,
                 arenaName |-> <<>>, jsonOutput |-> Null ]

\* the pixel positions of the grid
Pixels ==
  { canvasCentre + k * (UNITS_PER_METER * SCALE) :
      k \in {0 - 1, 0, 1} }

\* the model follows the builder while its lists are short
builderBounded(b) ==
  /\ Len(b.points) <= BuilderMaxPoints
  /\ Len(b.distances) <= BuilderMaxDistances
  /\ \A k \in 1..Len(b.points) :
       b.points[k][1] \in Pixels /\ b.points[k][2] \in Pixels

builderDoes(b) ==
  /\ builderBounded(b)
  /\ builder' = b
  /\ UNCHANGED <<simulation, urlUpdate, page>>

canvasClick ==
  \E x \in Pixels, y \in Pixels, answer \in Answers :
    /\ Len(builder.points) > 0 =>
         \/ x = builder.points[Len(builder.points)][1]
         \/ y = builder.points[Len(builder.points)][2]
    /\ builderDoes(handleCanvasClick(builder, <<x, y>>, answer))

canvasAuxclick ==
  \E answer \in Answers : builderDoes(handleMiddleClick(builder, answer))

canvasContextmenu == builderDoes(handleRightClick(builder))

builderResetClick == builderDoes(builderReset(builder))

undoBtnClick == builderDoes(undo(builder))

lockBtnClick == \E answer \in Answers : builderDoes(lock(builder, answer))

saveBtnClick == builderDoes(showExport(builder))

mirrorToggleChange == builderDoes([builder EXCEPT !.mirror = ~@])

arenaNameInput ==
  \E name \in {<<>>, <<"a">>} :
    builderDoes([builder EXCEPT !.arenaName = name])

BuilderNext ==
  \/ canvasClick
  \/ canvasAuxclick
  \/ canvasContextmenu
  \/ builderResetClick
  \/ undoBtnClick
  \/ lockBtnClick
  \/ saveBtnClick
  \/ mirrorToggleChange
  \/ arenaNameInput

SpecBuilder == BuilderInit /\ [][BuilderNext]_vars

\* C31: the Arena Builder exports JSON only for a locked arena, and an
\* arena can become locked only while it has at least 3 points: every
\* exported polygon has at least 3 vertices.
C31_ExportedPolygonHasThreeVertices ==
  /\ builder.locked => Len(builder.points) >= 3
  /\ ~builder.jsonOutput.null =>
       /\ builder.locked
       /\ Len(builder.jsonOutput.points) >= 3

\* an export with mirror on of a locked arena of three drawn points: six
\* vertices exported
C31_Witness ==
  /\ builder.locked
  /\ ~builder.jsonOutput.null
  /\ Len(builder.points) = 3
  /\ Len(builder.jsonOutput.points) = 6

\* C39: the distance list matches the drawn edges: while drawing,
\* distances.length = points.length - 1 (0 with no points), and once locked
\* distances.length = points.length.
C39_DistancesMatchEdges ==
  IF builder.locked
    THEN Len(builder.distances) = Len(builder.points)
    ELSE Len(builder.distances) = Max(0, Len(builder.points) - 1)

\* a second click on the first point pushed a distance without a point
C39_DistanceWithoutPoint ==
  /\ Len(builder.points) = 1
  /\ Len(builder.distances) = 2
  /\ ~builder.mirror

\* an undo with mirror on popped two points and one distance
C39_MirrorUndo ==
  /\ builder.mirror
  /\ Len(builder.points) = 1
  /\ Len(builder.distances) = 1
  /\ builder.pendingDistanceUnits.null

=============================================================================
